---- MODULE Spec2Model ----
(***************************************************************************)
(* Session state engine of the chambers package: the per-chamber event    *)
(* log, the House and Senate merges, the signals derived from the log and  *)
(* the House refresh.                                                      *)
(*                                                                         *)
(* Conventions.                                                            *)
(*   - An event is a record whose fields are the keys of the Python dict;  *)
(*     a key the dict lacks is a field the record lacks.                   *)
(*   - Instants are integers on one time line (aware datetimes compare as  *)
(*     instants).                                                          *)
(*   - A Python value that is None or a datetime is the tagged tuple       *)
(*     <<"none">> or <<"dt", t>>; a search result is <<"none">>,           *)
(*     <<"event", e>> or <<"KeyError">> when the search raises.            *)
(*   - The value of the convened property is "True", "False", "Unknown"    *)
(*     (the Python values True, False and the string "Unknown").           *)
(*   - A House unique-id n is <<"uid", n>>; the id of an end-of-day event  *)
(*     (the float POSIX timestamp of instant t) is <<"ts", t>>.            *)
(***************************************************************************)
EXTENDS Integers, Sequences, FiniteSets, TLC

\* ---------------------------------------------------------------- bounds
MaxTime == 2
MaxLog == 3
MaxUid == 2

\* ------------------------------------------------- chambers/const.py kinds
OTHER_KIND == 0
CONVENE == 1
CONVENE_SCHEDULED == 2
RECONVENE == 3
ADJOURN == 4
RECESS_TIME == 5
RECESS_COC == 6
RECESS_15M == 7
MORNING_DEBATE == 10
DEBATE_BILL == 11
VOTE_VOICE == 21
VOTE_RECORDED == 22

\* RECESS is the tuple (RECESS_TIME, RECESS_COC), a value that equals
\* none of the kinds and is in no list of kinds; it is written here as a
\* number that is none of them.
RECESS == 56

ALL_EVENTS ==
  {CONVENE, RECONVENE, ADJOURN, RECESS_TIME, RECESS_COC, MORNING_DEBATE,
   DEBATE_BILL, VOTE_VOICE, VOTE_RECORDED}

Times == 0..MaxTime

None == <<"none">>

Dt(t) == <<"dt", t>>

\* ------------------------------------------------------------ the state
VARIABLES
  name,         \* Chamber._name: "House" or "Senate"
  events,       \* Chamber._events, the event log (a Python list)
  updated,      \* Chamber._updated
  next_update,  \* Chamber._next_update
  now,          \* the wall clock read by datetime.now()
  pc,           \* where the chamber's update() is: "idle" (not running),
                \* "today" or "prior" (about to make that fetch)
  today_ok,     \* House._load: today_response.ok
  day_i,        \* House._load: the loop variable i
  cache,        \* the files at cache_path and at cache_path + ".new"
  obs,          \* what the last caller of a property or method got back
  mqtt_status   \* ChamberWatcher._mqtt_status; None where no
                \* ChamberWatcher holds the chamber

vars ==
  <<name, events, updated, next_update, now, pc, today_ok, day_i, cache, obs,
    mqtt_status>>

\* A file that does not exist, and the directory without either file.
Missing == [file |-> "missing"]

NoCache == [path |-> Missing, new |-> Missing]

\* What pickle.dump(status, nc_fh) writes: the dict with the keys events,
\* updated and next_update.
Snapshot(log, upd, nxt) ==
  [events |-> log, updated |-> upd, next_update |-> nxt]

\* A file that open(new_cache, 'wb') has created or emptied and whose
\* pickle is not written out yet.
Truncated == [file |-> "truncated"]

\* The variables only update() writes.
refresh == <<updated, next_update, pc, today_ok, day_i>>

\* datetime(1900, 1, 1): an instant long before any the clock shows.
Year1900 == 0 - 1000

\* The state Chamber.__init__ leaves (without a cache file).
Constructed ==
  /\ events = <<>>
  /\ updated = Dt(Year1900)
  /\ next_update = Dt(Year1900)
  /\ pc = "idle"
  /\ today_ok = FALSE
  /\ day_i = 0
  /\ cache = NoCache

\* ------------------------------------------------ Chamber._search_events
\* One pass of the for loop from position i with selected_event = sel.
\* An event without 'type' raises KeyError inside the try; the handler
\* formats event['id'], which raises again when the event has no 'id'.
RECURSIVE SearchLoop(_, _, _, _, _, _)
SearchLoop(log, i, sel, target_dt, search_forward, types) ==
  IF i > Len(log) THEN sel
  ELSE
    LET event == log[i] IN
    IF "type" \notin DOMAIN event
    THEN IF "id" \notin DOMAIN event
         THEN <<"KeyError">>
         ELSE SearchLoop(log, i + 1, sel, target_dt, search_forward, types)
    ELSE IF event.type \in types
    THEN IF search_forward /\ event.timestamp >= target_dt
         THEN IF sel = None
              THEN SearchLoop(log, i + 1, <<"event", event>>, target_dt,
                              search_forward, types)
              ELSE IF event.timestamp < sel[2].timestamp
              THEN SearchLoop(log, i + 1, <<"event", event>>, target_dt,
                              search_forward, types)
              ELSE SearchLoop(log, i + 1, sel, target_dt, search_forward, types)
         ELSE IF ~search_forward /\ event.timestamp <= target_dt
         THEN IF sel = None
              THEN SearchLoop(log, i + 1, <<"event", event>>, target_dt,
                              search_forward, types)
              ELSE IF event.timestamp > sel[2].timestamp
              THEN SearchLoop(log, i + 1, <<"event", event>>, target_dt,
                              search_forward, types)
              ELSE SearchLoop(log, i + 1, sel, target_dt, search_forward, types)
         ELSE SearchLoop(log, i + 1, sel, target_dt, search_forward, types)
    ELSE SearchLoop(log, i + 1, sel, target_dt, search_forward, types)

\* Mutant of _search_events: the loop stops at the first event of a
\* requested kind on the right side of the reference instant.
search_events_first(log, target_dt, search_forward, types) ==
  LET hits == {i \in 1..Len(log) :
                 /\ "type" \in DOMAIN log[i]
                 /\ log[i].type \in types
                 /\ IF search_forward THEN log[i].timestamp >= target_dt
                    ELSE log[i].timestamp <= target_dt}
  IN IF hits = {} THEN None
     ELSE <<"event", log[CHOOSE i \in hits : \A j \in hits : i <= j]>>

\* A _search_events whose backward search leaves out the events at the
\* reference instant itself (and whose forward search leaves them out too).
search_events_strict(log, target_dt, search_forward, types) ==
  LET hits == {i \in 1..Len(log) :
                 /\ "type" \in DOMAIN log[i]
                 /\ log[i].type \in types
                 /\ IF search_forward THEN log[i].timestamp > target_dt
                    ELSE log[i].timestamp < target_dt}
      best == {i \in hits :
                 \A j \in hits :
                   IF search_forward
                   THEN log[i].timestamp <= log[j].timestamp
                   ELSE log[i].timestamp >= log[j].timestamp}
  IN IF hits = {} THEN None
     ELSE <<"event", log[CHOOSE i \in best : \A j \in best : i <= j]>>

\* _search_events(timestamp, search_forward, types) on the log `log`;
\* `types` is the list the code builds (a single kind becomes [kind]).
search_events(log, target_dt, search_forward, types) ==
  SearchLoop(log, 1, None, target_dt, search_forward, types)

\* Mutant of convened: a CONVENE and an ADJOURN at the same instant read
\* as convened.
convened_ties_true(log, t) ==
  LET latest_convene == search_events(log, t, FALSE, {CONVENE})
      latest_adjourn == search_events(log, t, FALSE, {ADJOURN})
  IN IF latest_convene = <<"KeyError">> \/ latest_adjourn = <<"KeyError">>
     THEN "KeyError"
     ELSE IF latest_adjourn = None /\ latest_convene = None THEN "Unknown"
     ELSE IF latest_adjourn # None /\ latest_convene = None THEN "False"
     ELSE IF latest_adjourn = None THEN "True"
     ELSE IF latest_adjourn[2].timestamp <= latest_convene[2].timestamp
     THEN "True"
     ELSE "False"

\* ------------------------------------------------------ Chamber.convened
convened(log, t) ==
  LET latest_convene == search_events(log, t, FALSE, {CONVENE})
      latest_adjourn == search_events(log, t, FALSE, {ADJOURN})
  IN IF latest_convene = <<"KeyError">> \/ latest_adjourn = <<"KeyError">>
     THEN "KeyError"
     ELSE IF latest_adjourn = None /\ latest_convene = None THEN "Unknown"
     ELSE IF latest_adjourn # None /\ latest_convene = None THEN "False"
     ELSE IF latest_adjourn = None THEN "True"
     ELSE IF latest_adjourn[2].timestamp < latest_convene[2].timestamp
     THEN "True"
     ELSE "False"

\* Python truth value of what convened returns: the string "Unknown" is a
\* non-empty string, hence true.
Truthy(value) == value # "False"

\* Mutant of adjourned_at: the latest ADJOURN is reported without looking
\* at the latest CONVENE.
adjourned_at_any(log, t) ==
  LET latest_adjourn == search_events(log, t, FALSE, {ADJOURN})
  IN IF latest_adjourn = <<"KeyError">> THEN <<"KeyError">>
     ELSE IF latest_adjourn = None THEN None
     ELSE Dt(latest_adjourn[2].timestamp)

\* An adjourned_at that reports an ADJOURN at the very instant of the
\* latest CONVENE.
adjourned_at_ties(log, t) ==
  LET latest_convene == search_events(log, t, FALSE, {CONVENE})
      latest_adjourn == search_events(log, t, FALSE, {ADJOURN})
  IN IF latest_convene = <<"KeyError">> \/ latest_adjourn = <<"KeyError">>
     THEN <<"KeyError">>
     ELSE IF latest_adjourn = None THEN None
     ELSE IF latest_convene = None THEN Dt(latest_adjourn[2].timestamp)
     ELSE IF latest_adjourn[2].timestamp >= latest_convene[2].timestamp
     THEN Dt(latest_adjourn[2].timestamp)
     ELSE None

\* -------------------------------------------------- Chamber.adjourned_at
adjourned_at(log, t) ==
  LET latest_convene == search_events(log, t, FALSE, {CONVENE})
      latest_adjourn == search_events(log, t, FALSE, {ADJOURN})
  IN IF latest_convene = <<"KeyError">> \/ latest_adjourn = <<"KeyError">>
     THEN <<"KeyError">>
     ELSE IF latest_adjourn = None THEN None
     ELSE IF latest_convene = None THEN Dt(latest_adjourn[2].timestamp)
     ELSE IF latest_adjourn[2].timestamp > latest_convene[2].timestamp
     THEN Dt(latest_adjourn[2].timestamp)
     ELSE None

\* Mutant of convened_at: the latest CONVENE is reported without the
\* convened test.
convened_at_unchecked(log, t) ==
  LET latest_convene == search_events(log, t, FALSE, {CONVENE})
  IN IF latest_convene = <<"KeyError">> THEN <<"KeyError">>
     ELSE IF latest_convene = None THEN None
     ELSE Dt(latest_convene[2].timestamp)

\* --------------------------------------------------- Chamber.convened_at
convened_at(log, t) ==
  IF convened(log, t) = "KeyError" THEN <<"KeyError">>
  ELSE IF Truthy(convened(log, t))
  THEN LET latest_convene == search_events(log, t, FALSE, {CONVENE})
       IN IF latest_convene = None THEN None
          ELSE Dt(latest_convene[2].timestamp)
  ELSE None

\* Mutant of convenes_at: search_forward is left at its default.
convenes_at_backward(log, t) ==
  LET next_convene == search_events(log, t, FALSE, {CONVENE_SCHEDULED})
  IN IF next_convene = <<"KeyError">> THEN <<"KeyError">>
     ELSE IF next_convene # None THEN Dt(next_convene[2].timestamp)
     ELSE None

\* --------------------------------------------------- Chamber.convenes_at
convenes_at(log, t) ==
  LET next_convene == search_events(log, t, TRUE, {CONVENE_SCHEDULED})
  IN IF next_convene = <<"KeyError">> THEN <<"KeyError">>
     ELSE IF next_convene # None THEN Dt(next_convene[2].timestamp)
     ELSE None


\* -------------------------------------------------- Chamber._sort_events
\* sorted(..., key=itemgetter('timestamp'), reverse=True) is stable: events
\* with equal timestamps keep their relative order.
RECURSIVE InsertDescending(_, _)
InsertDescending(sorted, event) ==
  IF sorted = <<>> THEN <<event>>
  ELSE IF Head(sorted).timestamp >= event.timestamp
  THEN <<Head(sorted)>> \o InsertDescending(Tail(sorted), event)
  ELSE <<event>> \o sorted

RECURSIVE sort_events(_)
sort_events(log) ==
  IF log = <<>> THEN <<>>
  ELSE InsertDescending(sort_events(SubSeq(log, 1, Len(log) - 1)),
                        log[Len(log)])

\* list.pop(i)
Pop(log, i) == SubSeq(log, 1, i - 1) \o SubSeq(log, i + 1, Len(log))

\* ======================================================================
\* House merge (chambers/house.py)
\* ======================================================================

\* The phrases House._add_floor_action looks for in a description.
NEW_DAY == "The House convened, starting a new legislative day."

FROM_RECESS == "The House convened, returning from a recess"

ADJOURNED == "The House adjourned."

CLAUSE_13 ==
  "The Speaker announced that the House do now adjourn pursuant to clause 13 of Rule I"

RECESS_SCHEDULED ==
  "The Speaker announced that the House do now recess. The next meeting is scheduled for"

RECESS_CALL ==
  "The Speaker announced that the House do now recess. The next meeting is subject to the call of the Chair."

MORNING_HOUR == "MORNING-HOUR DEBATE"

DEBATE == "DEBATE - "

\* A description is the record [phrases, exact, rev]: the phrases above it
\* contains, whether it is exactly its one phrase, and the revision of the
\* text (two revisions are different strings).
PhraseIn(phrase, description) == phrase \in description.phrases

PhraseIs(phrase, description) ==
  description.exact /\ description.phrases = {phrase}

\* The kind House._add_floor_action gives the event it builds from a
\* floor_action element: <<"type", k>>, <<"notype">> when no branch assigns
\* event['type'], or <<"raise", e>>.
\* The last H61000 branch tests a non-empty string literal, which is true.
\* The last elif reads event['act_id'], a key the event does not have.
floor_action_type(fa) ==
  IF fa.act_id = "H20100"
  THEN IF PhraseIn(FROM_RECESS, fa.description) THEN <<"type", RECONVENE>>
       ELSE IF PhraseIn(NEW_DAY, fa.description) THEN <<"type", CONVENE>>
       ELSE <<"notype">>
  ELSE IF fa.act_id = "H61000"
  THEN IF PhraseIn(ADJOURNED, fa.description) THEN <<"type", ADJOURN>>
       ELSE IF PhraseIn(CLAUSE_13, fa.description) THEN <<"type", ADJOURN>>
       ELSE IF PhraseIn(RECESS_SCHEDULED, fa.description)
       THEN <<"type", RECESS_TIME>>
       ELSE IF PhraseIs(RECESS_CALL, fa.description)
       THEN <<"type", RECESS_COC>>
       ELSE <<"type", RECESS_15M>>
  ELSE IF fa.act_id = "H8D000"
  THEN IF PhraseIn(MORNING_HOUR, fa.description)
       THEN <<"type", MORNING_DEBATE>>
       ELSE IF PhraseIn(DEBATE, fa.description)
       THEN IF "action_item" \in DOMAIN fa THEN <<"type", DEBATE_BILL>>
            ELSE <<"raise", "AttributeError">>
       ELSE <<"type", OTHER_KIND>>
  ELSE IF fa.act_id = "H37100"
  THEN IF "action_item" \in DOMAIN fa THEN <<"type", VOTE_RECORDED>>
       ELSE <<"raise", "AttributeError">>
  ELSE <<"raise", "KeyError">>

\* The event dict House._add_floor_action builds (lines 275-325).
floor_action_event(fa) ==
  LET base == [id |-> fa.unique_id, act_id |-> fa.act_id,
               updated |-> fa.update_date_time, timestamp |-> fa.for_search,
               description |-> fa.description]
      kind == floor_action_type(fa)
      typed == IF kind[1] = "type"
               THEN [f \in DOMAIN base \cup {"type"} |->
                       IF f = "type" THEN kind[2] ELSE base[f]]
               ELSE base
  IN IF kind[1] = "type" /\ kind[2] \in {DEBATE_BILL, VOTE_RECORDED}
     THEN [f \in DOMAIN typed \cup {"action_item"} |->
             IF f = "action_item" THEN fa.action_item ELSE typed[f]]
     ELSE typed

\* The while loop of House._add_floor_action from position i: "return"
\* when an event with the same id is at least as new (return False),
\* "add" otherwise (do_add is set on the first pass and there is no pass
\* only on an empty log, where it is set as well), "KeyError" when an
\* event read has no 'id' or the matched one no 'updated'.
RECURSIVE HouseScan(_, _, _)
HouseScan(log, i, fa) ==
  IF i > Len(log) THEN "add"
  ELSE IF "id" \notin DOMAIN log[i] THEN "KeyError"
  ELSE IF log[i].id = fa.unique_id
  THEN IF "updated" \notin DOMAIN log[i] THEN "KeyError"
       ELSE IF fa.update_date_time > log[i].updated
       THEN "add"    \* del_list.append(i); do_add = True; break
       ELSE "return"
  ELSE HouseScan(log, i + 1, fa)

\* House._add_floor_action(floor_action): the log afterwards and what the
\* call returns ("True", "False") or raises.  del_list is filled and never
\* read: nothing is removed from the log.
house_add_floor_action(log, fa) ==
  LET scan == HouseScan(log, 1, fa) IN
  IF scan = "KeyError" THEN [events |-> log, ret |-> "KeyError"]
  ELSE IF scan = "return" THEN [events |-> log, ret |-> "False"]
  ELSE IF fa.tag # "floor_action" THEN [events |-> log, ret |-> "True"]
  ELSE IF floor_action_type(fa)[1] = "raise"
  THEN [events |-> log, ret |-> floor_action_type(fa)[2]]
  ELSE [events |-> Append(log, floor_action_event(fa)), ret |-> "True"]

\* House._add_end_day(end_day): always appends; returns None.
house_add_end_day(log, end_day) ==
  LET convenes_dt == end_day.next_legislative_day_convenes
  IN [events |-> Append(log, [type |-> CONVENE_SCHEDULED,
                              timestamp |-> convenes_dt,
                              id |-> <<"ts", convenes_dt>>]),
      ret |-> "None"]

\* ======================================================================
\* Senate merge (chambers/senate.py)
\* ======================================================================

\* The while loop of Senate._add_floor_action: the first position whose
\* event has the timestamp of the new one, 0 when there is none.
RECURSIVE SenateScan(_, _, _)
SenateScan(log, i, floor_action) ==
  IF i > Len(log) THEN 0
  ELSE IF log[i].timestamp = floor_action.timestamp THEN i
  ELSE SenateScan(log, i + 1, floor_action)

\* Mutant of Senate._add_floor_action: a same-instant event is always
\* replaced, also a CONVENE by a CONVENE_SCHEDULED.
senate_add_floor_action_replaces(log, floor_action) ==
  LET i == SenateScan(log, 1, floor_action)
  IN [events |-> IF i = 0 THEN Append(log, floor_action)
                 ELSE Pop(Append(log, floor_action), i),
      ret |-> "True"]

\* Mutant of Senate._add_floor_action: del_list is never applied.
senate_add_floor_action_keeps(log, floor_action) ==
  LET i == SenateScan(log, 1, floor_action)
  IN [events |-> IF /\ i # 0
                    /\ log[i].type = CONVENE
                    /\ floor_action.type = CONVENE_SCHEDULED
                 THEN log
                 ELSE Append(log, floor_action),
      ret |-> "True"]

\* Senate._add_floor_action(floor_action): the log afterwards and the
\* value returned.
senate_add_floor_action(log, floor_action) ==
  LET i == SenateScan(log, 1, floor_action)
      do_add == ~(/\ i # 0
                  /\ log[i].type = CONVENE
                  /\ floor_action.type = CONVENE_SCHEDULED)
      del_list == IF i # 0 /\ do_add THEN <<i>> ELSE <<>>
      appended == IF do_add THEN Append(log, floor_action) ELSE log
  IN [events |-> IF del_list = <<>> THEN appended
                 ELSE Pop(appended, del_list[1]),
      ret |-> "True"]

\* ======================================================================
\* Derivations over an arbitrary event log (specification SpecDerive).
\* A test harness builds a chamber whose log is any list of at most MaxLog
\* events and then reads one of the four signal properties or calls
\* _search_events; each call reads the clock itself.
\* ======================================================================

DeriveKinds == {CONVENE, ADJOURN, CONVENE_SCHEDULED}

\* The events a harness may store at position p; the unique id keeps two
\* events of the same kind and instant distinguishable.
DeriveEvents(p) ==
  {[id |-> <<"uid", p>>, timestamp |-> t, type |-> k] :
     t \in Times, k \in DeriveKinds}

DeriveLogs ==
  UNION {{log \in [1..n -> UNION {DeriveEvents(p) : p \in 1..n}] :
            \A p \in 1..n : log[p] \in DeriveEvents(p)} : n \in 0..MaxLog}

\* The searches the package makes: convened, convened_at and adjourned_at
\* look backward for CONVENE and ADJOURN, convenes_at forward for
\* CONVENE_SCHEDULED, House.activity either way over ALL_EVENTS.
SearchCalls ==
  {<<FALSE, {CONVENE}>>, <<FALSE, {ADJOURN}>>, <<TRUE, {CONVENE_SCHEDULED}>>,
   <<FALSE, ALL_EVENTS>>, <<TRUE, ALL_EVENTS>>}

Idle == [op |-> "none"]

\* The derivations are Chamber's own and are inherited unchanged by both
\* subclasses; the harness chamber is a House.
InitDerive ==
  /\ mqtt_status = None
  /\ name = "House"
  /\ events \in DeriveLogs
  /\ updated = Dt(Year1900)
  /\ next_update = Dt(Year1900)
  /\ pc = "idle"
  /\ today_ok = FALSE
  /\ day_i = 0
  /\ cache = NoCache
  /\ now \in Times
  /\ obs = Idle

\* A caller reads one signal property.  Each property reads the clock
\* itself (_search_events, datetime.now()): two reads are two steps, and
\* the clock may move between them.
ReadConvened ==
  /\ obs = Idle
  /\ obs' = [op |-> "convened", value |-> convened(events, now)]
  /\ UNCHANGED <<mqtt_status, name, cache, events, now, refresh>>

ReadAdjournedAt ==
  /\ obs = Idle
  /\ obs' = [op |-> "adjourned_at", value |-> adjourned_at(events, now)]
  /\ UNCHANGED <<mqtt_status, name, cache, events, now, refresh>>

ReadConvenedAt ==
  /\ obs = Idle
  /\ obs' = [op |-> "convened_at", value |-> convened_at(events, now)]
  /\ UNCHANGED <<mqtt_status, name, cache, events, now, refresh>>

ReadConvenesAt ==
  /\ obs = Idle
  /\ obs' = [op |-> "convenes_at", value |-> convenes_at(events, now)]
  /\ UNCHANGED <<mqtt_status, name, cache, events, now, refresh>>

\* A caller runs _search_events(search_forward, types) at the current time.
CallSearch ==
  /\ obs = Idle
  /\ \E call \in SearchCalls :
       obs' = [op |-> "search", search_forward |-> call[1], types |-> call[2],
               result |-> search_events(events, now, call[1], call[2])]
  /\ UNCHANGED <<mqtt_status, name, cache, events, now, refresh>>

\* Time passes; what was read before is dropped.
Advance ==
  /\ now < MaxTime
  /\ now' = now + 1
  /\ obs' = Idle
  /\ UNCHANGED <<mqtt_status, name, cache, events, refresh>>

NextDerive ==
  \/ ReadConvened
  \/ ReadAdjournedAt
  \/ ReadConvenedAt
  \/ ReadConvenesAt
  \/ CallSearch
  \/ Advance

SpecDerive == InitDerive /\ [][NextDerive]_vars


\* ----------------------------------------------------------------------
\* What the claims expect, stated over the log as a collection.
\* ----------------------------------------------------------------------

\* Positions of the events of kind k at or before instant t.
PastOf(log, t, k) ==
  {i \in 1..Len(log) :
     "type" \in DOMAIN log[i] /\ log[i].type = k /\ log[i].timestamp <= t}

\* Positions of the events of kind k at or after instant t.
FutureOf(log, t, k) ==
  {i \in 1..Len(log) :
     "type" \in DOMAIN log[i] /\ log[i].type = k /\ log[i].timestamp >= t}

LatestTs(log, S) ==
  CHOOSE t \in {log[i].timestamp : i \in S} :
    \A i \in S : log[i].timestamp <= t

EarliestTs(log, S) ==
  CHOOSE t \in {log[i].timestamp : i \in S} :
    \A i \in S : log[i].timestamp >= t

PastConvenes == PastOf(events, now, CONVENE)

PastAdjourns == PastOf(events, now, ADJOURN)

FutureScheduled == FutureOf(events, now, CONVENE_SCHEDULED)

\* C1: convened is UNKNOWN with no past CONVENE and no past ADJOURN, FALSE
\* with a past ADJOURN only, TRUE with a past CONVENE only, and with both
\* TRUE exactly when the latest past CONVENE is strictly later than the
\* latest past ADJOURN (equal instants give FALSE).
C1_Convened ==
  obs.op = "convened" =>
    obs.value =
      IF PastConvenes = {} /\ PastAdjourns = {} THEN "Unknown"
      ELSE IF PastConvenes = {} THEN "False"
      ELSE IF PastAdjourns = {} THEN "True"
      ELSE IF LatestTs(events, PastConvenes) > LatestTs(events, PastAdjourns)
      THEN "True"
      ELSE "False"

\* C1 witness: convened was read from a log whose latest past CONVENE
\* and latest past ADJOURN are at the same instant, and convened is FALSE.
C1_Witness ==
  /\ obs.op = "convened"
  /\ PastConvenes # {} /\ PastAdjourns # {}
  /\ LatestTs(events, PastConvenes) = LatestTs(events, PastAdjourns)
  /\ Cardinality(PastConvenes) >= 2
  /\ obs.value = "False"

\* C2: adjourned_at is the instant of the latest past ADJOURN when one
\* exists and there is no past CONVENE or the ADJOURN is strictly later
\* than the latest past CONVENE; otherwise it is absent.
C2_AdjournedAt ==
  obs.op = "adjourned_at" =>
    obs.value =
      IF /\ PastAdjourns # {}
         /\ \/ PastConvenes = {}
            \/ LatestTs(events, PastAdjourns) > LatestTs(events, PastConvenes)
      THEN Dt(LatestTs(events, PastAdjourns))
      ELSE None

\* C2 witness: adjourned_at read with two past ADJOURNs at different instants
\* after a past CONVENE; adjourned_at is the later one.
C2_Witness ==
  /\ obs.op = "adjourned_at"
  /\ PastConvenes # {}
  /\ Cardinality({events[i].timestamp : i \in PastAdjourns}) >= 2
  /\ obs.value = Dt(LatestTs(events, PastAdjourns))

\* C3: convened_at is the instant of the latest past CONVENE exactly when
\* convened is TRUE and is absent when convened is FALSE or UNKNOWN.
C3_ConvenedAt ==
  obs.op = "convened_at" =>
    /\ convened(events, now) = "True" =>
         /\ PastConvenes # {}
         /\ obs.value = Dt(LatestTs(events, PastConvenes))
    /\ convened(events, now) \in {"False", "Unknown"} => obs.value = None
    /\ convened(events, now) \in {"True", "False", "Unknown"}

\* C3 witness: convened_at read while adjourned after an earlier CONVENE, so a
\* past CONVENE exists and convened_at is nevertheless absent.
C3_Witness ==
  /\ obs.op = "convened_at"
  /\ PastConvenes # {}
  /\ convened(events, now) = "False"
  /\ obs.value = None

\* C4: convenes_at is the smallest instant among the CONVENE_SCHEDULED
\* events at or after now, and absent when there is none; a scheduled
\* convening already in the past never shows.
C4_ConvenesAt ==
  obs.op = "convenes_at" =>
    obs.value =
      IF FutureScheduled = {} THEN None
      ELSE Dt(EarliestTs(events, FutureScheduled))

\* C4 witness: convenes_at read from a log holding a CONVENE_SCHEDULED before
\* now and two at different instants from now on.
C4_Witness ==
  /\ obs.op = "convenes_at"
  /\ PastOf(events, now - 1, CONVENE_SCHEDULED) # {}
  /\ Cardinality({events[i].timestamp : i \in FutureScheduled}) >= 2
  /\ obs.value = Dt(EarliestTs(events, FutureScheduled))


\* Positions of the events a search for `types` in direction fwd from
\* instant t may return.
Qualifying(log, t, fwd, types) ==
  {i \in 1..Len(log) :
     /\ "type" \in DOMAIN log[i]
     /\ log[i].type \in types
     /\ IF fwd THEN log[i].timestamp >= t ELSE log[i].timestamp <= t}

\* The instant closest to t among the positions S.
ClosestTs(log, S, fwd) ==
  IF fwd THEN EarliestTs(log, S) ELSE LatestTs(log, S)

\* The same events stored in the order given by the permutation f.
Reordered(log, f) == [i \in 1..Len(log) |-> log[f[i]]]

Orders(log) == Permutations(1..Len(log))

\* C5 as claimed: the search returns nothing when no event qualifies and
\* otherwise a qualifying event at the closest instant, and every storage
\* order of the same events gives the same result.
C5_SearchAnyOrder ==
  obs.op = "search" =>
    LET Q == Qualifying(events, now, obs.search_forward, obs.types) IN
    /\ Q = {} => obs.result = None
    /\ Q # {} =>
         /\ obs.result[1] = "event"
         /\ \E i \in Q :
              /\ events[i] = obs.result[2]
              /\ events[i].timestamp = ClosestTs(events, Q, obs.search_forward)
    /\ \A f \in Orders(events) :
         search_events(Reordered(events, f), now, obs.search_forward,
                       obs.types) = obs.result

\* C5 amended: the search returns nothing when no event qualifies and
\* otherwise the first stored of the qualifying events at the closest
\* instant; in every storage order the result has that same instant and a
\* requested kind, and it is the same event whenever only one qualifying
\* event is at that instant.
C5_SearchClosest ==
  obs.op = "search" =>
    LET fwd == obs.search_forward
        Q == Qualifying(events, now, fwd, obs.types)
        AtClosest == {i \in Q : events[i].timestamp = ClosestTs(events, Q, fwd)}
        Results == {search_events(Reordered(events, f), now, fwd, obs.types) :
                      f \in Orders(events)}
    IN
    /\ Q = {} => Results = {None}
    /\ Q # {} =>
         /\ obs.result =
              <<"event", events[CHOOSE i \in AtClosest :
                                  \A j \in AtClosest : i <= j]>>
         /\ \A r \in Results :
              /\ r[1] = "event"
              /\ r[2].timestamp = ClosestTs(events, Q, fwd)
              /\ r[2].type \in obs.types
         /\ Cardinality(AtClosest) = 1 => Results = {obs.result}

\* C5 witness: a search was made over a log holding a qualifying event
\* that is not at the closest instant and two qualifying events that are.
C5_Witness ==
  /\ obs.op = "search"
  /\ LET Q == Qualifying(events, now, obs.search_forward, obs.types)
         AtClosest == {i \in Q : events[i].timestamp =
                                   ClosestTs(events, Q, obs.search_forward)}
     IN /\ Cardinality(AtClosest) = 2
        /\ Cardinality(Q) = 3
        /\ obs.result[1] = "event"


\* ======================================================================
\* The merges called one at a time (specifications SpecHouseMerge and
\* SpecSenateMerge): a harness holds one chamber, empty at first, and
\* calls its merge methods and _sort_events in any order.
\* ======================================================================

\* The floor_action elements the House feed may carry: action u with
\* unique-id u, published in revisions r (its update-date-time).  Odd
\* actions are convenings of a new legislative day, even ones adjournments.
FloorAction(u, r) ==
  [tag |-> "floor_action",
   unique_id |-> <<"uid", u>>,
   act_id |-> IF u % 2 = 1 THEN "H20100" ELSE "H61000",
   update_date_time |-> r,
   for_search |-> u % (MaxTime + 1),
   description |-> [phrases |-> IF u % 2 = 1 THEN {NEW_DAY} ELSE {ADJOURNED},
                    exact |-> FALSE,
                    rev |-> r]]

FloorActions == {FloorAction(u, r) : u \in 1..MaxUid, r \in Times}

\* The legislative_day_finished elements the House feed may carry.
EndDays ==
  {[tag |-> "legislative_day_finished",
    next_legislative_day_convenes |-> t] : t \in Times}

\* The events the Senate parsers may hand to the merge: the schedule
\* record gives a CONVENE or a CONVENE_SCHEDULED, the floor XML a CONVENE,
\* an ADJOURN or a CONVENE_SCHEDULED.  The description and source_url keys
\* are functions of source and day and are left out.
SenateEvents ==
  {[timestamp |-> t, type |-> k, source |-> "JSON"] :
     t \in Times, k \in {CONVENE, CONVENE_SCHEDULED}}
  \cup
  {[timestamp |-> t, type |-> k, source |-> "XML"] :
     t \in Times, k \in {CONVENE, ADJOURN, CONVENE_SCHEDULED}}

InitHouseMerge ==
  /\ mqtt_status = None
  /\ name = "House"
  /\ Constructed
  /\ now = 0
  /\ obs = Idle

InitSenateMerge ==
  /\ mqtt_status = None
  /\ name = "Senate"
  /\ Constructed
  /\ now = 0
  /\ obs = Idle

\* House._add_floor_action(fa)
HouseAddFloorAction ==
  /\ name = "House"
  /\ Len(events) < MaxLog
  /\ \E fa \in FloorActions :
       LET r == house_add_floor_action(events, fa) IN
       /\ events' = r.events
       /\ obs' = [op |-> "add_floor_action", arg |-> fa, ret |-> r.ret,
                  before |-> Len(events)]
  /\ UNCHANGED <<mqtt_status, name, cache, now, refresh>>

\* House._add_end_day(end_day)
HouseAddEndDay ==
  /\ name = "House"
  /\ Len(events) < MaxLog
  /\ \E end_day \in EndDays :
       LET r == house_add_end_day(events, end_day) IN
       /\ events' = r.events
       /\ obs' = [op |-> "add_end_day", arg |-> end_day, ret |-> r.ret,
                  before |-> Len(events)]
  /\ UNCHANGED <<mqtt_status, name, cache, now, refresh>>

\* Senate._add_floor_action(event)
SenateAddFloorAction ==
  /\ name = "Senate"
  /\ \E event \in SenateEvents :
       LET r == senate_add_floor_action(events, event) IN
       /\ events' = r.events
       /\ obs' = [op |-> "add_floor_action", arg |-> event, ret |-> r.ret,
                  before |-> Len(events)]
  /\ UNCHANGED <<mqtt_status, name, cache, now, refresh>>

\* In these records obs.before is the length of the log before the call.

\* Chamber._sort_events()
SortEvents ==
  /\ events' = sort_events(events)
  /\ obs' = [op |-> "sort_events"]
  /\ UNCHANGED <<mqtt_status, name, cache, now, refresh>>

NextHouseMerge == HouseAddFloorAction \/ HouseAddEndDay \/ SortEvents

NextSenateMerge == SenateAddFloorAction \/ SortEvents

SpecHouseMerge == InitHouseMerge /\ [][NextHouseMerge]_vars

SpecSenateMerge == InitSenateMerge /\ [][NextSenateMerge]_vars


\* ----------------------------------------------------------------------
\* Claims about the merges.
\* ----------------------------------------------------------------------

\* The events of the log with the given id, in log order.
WithId(log, id) == SelectSeq(log, LAMBDA e : "id" \in DOMAIN e /\ e.id = id)

\* The events of the log with another id, in log order.
WithoutId(log, id) == SelectSeq(log, LAMBDA e : ~("id" \in DOMAIN e /\ e.id = id))

\* The events of the log at instant t, in log order.
AtInstant(log, t) == SelectSeq(log, LAMBDA e : e.timestamp = t)

\* C7: when an incoming House floor action has the id of an event already
\* in the log, then if its updated instant is strictly later the old event
\* is removed and the new one appended, so that the log holds exactly one
\* event with that id, carrying the newer data; otherwise the incoming
\* record is discarded and the log is unchanged.
C7_ReplaceIfNewer ==
  [][(/\ name = "House"
      /\ obs'.op = "add_floor_action"
      /\ Len(WithId(events, obs'.arg.unique_id)) = 1)
     =>
     LET fa == obs'.arg
         old == WithId(events, fa.unique_id)[1]
     IN IF fa.update_date_time > old.updated
        THEN /\ WithId(events', fa.unique_id) = <<floor_action_event(fa)>>
             /\ events'[Len(events')] = floor_action_event(fa)
             /\ WithoutId(events', fa.unique_id) = WithoutId(events, fa.unique_id)
        ELSE events' = events]_vars

\* C8: two House floor-action records with the same id and different
\* updated instants, merged one after the other in either order, leave
\* the log holding only the record with the larger updated instant.
C8_NewerWinsEitherOrder ==
  [][(/\ name = "House"
      /\ obs.op = "add_floor_action"
      /\ obs'.op = "add_floor_action"
      /\ obs.arg.unique_id = obs'.arg.unique_id
      /\ obs.arg.update_date_time # obs'.arg.update_date_time
      /\ WithId(events, obs.arg.unique_id) = <<floor_action_event(obs.arg)>>)
     =>
     LET newer == IF obs.arg.update_date_time > obs'.arg.update_date_time
                  THEN obs.arg ELSE obs'.arg
     IN WithId(events', newer.unique_id) = <<floor_action_event(newer)>>]_vars

\* C9: after any sequence of Senate merges the log holds at most one event
\* at any instant.
C9_OneEventPerInstant ==
  name = "Senate" =>
    \A i, j \in 1..Len(events) :
      i # j => events[i].timestamp # events[j].timestamp

\* C9 witness: a schedule-record event has just replaced the event that
\* was at its instant, in a log that also holds floor-XML events.
C9_Witness ==
  /\ name = "Senate"
  /\ obs.op = "add_floor_action"
  /\ obs.arg.source = "JSON"
  /\ obs.before = Len(events)
  /\ Len(events) >= 2
  /\ events[Len(events)] = obs.arg
  /\ \E i \in 1..Len(events) : events[i].source = "XML"

\* C10: when a CONVENE and a CONVENE_SCHEDULED meet at one instant t in
\* the Senate log, in either order of arrival, the log afterwards holds
\* exactly one event at t and it is a CONVENE: an arriving
\* CONVENE_SCHEDULED is discarded, an arriving CONVENE replaces.
C10_ConveneBeatsScheduled ==
  [][(name = "Senate" /\ obs'.op = "add_floor_action")
     =>
     \A i \in 1..Len(events) :
       (/\ events[i].timestamp = obs'.arg.timestamp
        /\ {events[i].type, obs'.arg.type} = {CONVENE, CONVENE_SCHEDULED})
       =>
       /\ Len(AtInstant(events', obs'.arg.timestamp)) = 1
       /\ AtInstant(events', obs'.arg.timestamp)[1].type = CONVENE
       /\ obs'.arg.type = CONVENE_SCHEDULED => events' = events
       /\ obs'.arg.type = CONVENE =>
            events' = Append(Pop(events, i), obs'.arg)]_vars

\* C10 witness: a CONVENE_SCHEDULED has just been merged onto a CONVENE at
\* the same instant, and the log kept its length and the CONVENE.
C10_Witness ==
  /\ name = "Senate"
  /\ obs.op = "add_floor_action"
  /\ obs.arg.type = CONVENE_SCHEDULED
  /\ obs.before = Len(events)
  /\ \E i \in 1..Len(events) :
       /\ events[i].timestamp = obs.arg.timestamp
       /\ events[i].type = CONVENE


\* ======================================================================
\* The scheduler (chambers/chamber.py, _set_next_update) and the House
\* refresh (chambers/house.py: update, _load, _load_xml), specification
\* Spec.  One tick of the clock is thirty seconds.
\* ======================================================================

\* The largest value of i in House._load that is explored.
MaxDays == 2

\* The clock counts steps of 30 seconds.
TICKS_PER_MINUTE == 2

\* timedelta(minutes=2), timedelta(seconds=60), timedelta(minutes=10), in
\* steps of the clock.
TWO_MINUTES == 4

SIXTY_SECONDS == 2

TEN_MINUTES == 20

\* datetime.replace(second=0, microsecond=0)
ZeroSeconds(t) == t - (t % TICKS_PER_MINUTE)

\* Chamber._set_next_update() on log `log` with _updated = upd and
\* _next_update = nxt at instant t: the value of _next_update afterwards
\* and the value returned.  The convened branch returns the instant it
\* computes and assigns nothing.
set_next_update(log, upd, nxt, t) ==
  IF convened(log, t) = "KeyError"
  THEN [next_update |-> nxt, ret |-> <<"KeyError">>]
  ELSE IF Truthy(convened(log, t))
  THEN [next_update |-> nxt,
        ret |-> Dt(ZeroSeconds(upd[2] + TWO_MINUTES))]
  ELSE IF convenes_at(log, t) # None
  THEN LET preconvene_target == convenes_at(log, t)[2] - TEN_MINUTES IN
       IF preconvene_target < t
       THEN [next_update |-> Dt(upd[2] + SIXTY_SECONDS), ret |-> None]
       ELSE [next_update |-> Dt(preconvene_target), ret |-> None]
  ELSE [next_update |-> Dt(upd[2] + TEN_MINUTES), ret |-> None]

\* The for loop of House._load_xml from child k with `items` counted so
\* far: the log afterwards, the count returned, and the exception a merge
\* raised ("none" when the loop ran to its end).
RECURSIVE LoadXmlLoop(_, _, _, _, _)
LoadXmlLoop(log, children, k, items, only_eod) ==
  IF k > Len(children) THEN [events |-> log, ret |-> items, exc |-> "none"]
  ELSE
    LET floor_action == children[k] IN
    IF floor_action.tag = "legislative_day_finished"
    THEN LET r == house_add_end_day(log, floor_action) IN
         IF r.ret = "True"
         THEN IF only_eod
              THEN [events |-> r.events, ret |-> items + 1, exc |-> "none"]
              ELSE LoadXmlLoop(r.events, children, k + 1, items + 1, only_eod)
         ELSE LoadXmlLoop(r.events, children, k + 1, items, only_eod)
    ELSE IF floor_action.tag = "floor_action" /\ ~only_eod
    THEN IF floor_action.act_id \in {"H20100", "H61000", "H8D000"}
         THEN LET r == house_add_floor_action(log, floor_action) IN
              IF r.ret = "True"
              THEN LoadXmlLoop(r.events, children, k + 1, items + 1, only_eod)
              ELSE IF r.ret = "False"
              THEN LoadXmlLoop(r.events, children, k + 1, items, only_eod)
              ELSE [events |-> r.events, ret |-> items, exc |-> r.ret]
         ELSE LoadXmlLoop(log, children, k + 1, items, only_eod)
    ELSE LoadXmlLoop(log, children, k + 1, items, only_eod)

\* House._load_xml(house_xml, only_eod).  A document is the record
\* [well_formed, floor_actions]: whether ET.fromstring parses it, and the
\* children of its floor_actions element in document order.
load_xml(log, house_xml, only_eod) ==
  IF ~house_xml.well_formed
  THEN [events |-> log, ret |-> 0, exc |-> "none"]
  ELSE LoadXmlLoop(log, house_xml.floor_actions, 1, 0, only_eod)

\* The revisions of floor action u a journal served at instant t may
\* carry: the one published when the action happened and one correction a
\* tick later, none of them after t.
Revisions(u, t) ==
  {r \in Times : /\ FloorAction(u, r).for_search <= r
                 /\ r <= FloorAction(u, r).for_search + 1
                 /\ r <= t}

\* The floor_action children of a journal served at instant t that come
\* from actions 1..u: each action is absent or present in one revision.
RECURSIVE FloorActionLists(_, _)
FloorActionLists(u, t) ==
  IF u = 0 THEN {<<>>}
  ELSE LET shorter == FloorActionLists(u - 1, t) IN
       shorter \cup
       {Append(s, FloorAction(u, r)) : s \in shorter, r \in Revisions(u, t)}

\* The instants a legislative_day_finished element of a served journal
\* may name: one that is soon past, the last one the clock shows, and one
\* ten minutes after it.
NextConvenings == {0, MaxTime, MaxTime + TEN_MINUTES}

\* The journals clerk.house.gov may serve at instant t: the day's
\* convening (action 1) and adjournment (action 2) as far as published,
\* then at most one legislative_day_finished element; or a body that is
\* not XML.
Journals(t) ==
  {[well_formed |-> TRUE, floor_actions |-> s \o tail] :
     s \in FloorActionLists(2, t),
     tail \in {<<>>} \cup
              {<<[tag |-> "legislative_day_finished",
                  next_legislative_day_convenes |-> c]>> :
                 c \in NextConvenings}}
  \cup {[well_formed |-> FALSE, floor_actions |-> <<>>]}

\* What requests.get may do at instant t: raise ConnectionError, or return
\* a response that is not ok (404), or one that is ok and carries a journal.
Responses(t) ==
  {[kind |-> "ConnectionError"], [kind |-> "response", ok |-> FALSE]}
  \cup {[kind |-> "response", ok |-> TRUE, content |-> j] : j \in Journals(t)}

\* ----------------------------------------------------------------------
\* The Senate refresh (chambers/senate.py: update, _load, _load_json,
\* _load_xml).
\* ----------------------------------------------------------------------

\* A _load_json that takes a convening at the very instant of the call
\* for one that has happened.
json_event_at_or_before(convene_dt, t) ==
  IF convene_dt <= t
  THEN <<"event", [timestamp |-> convene_dt, type |-> CONVENE,
                   source |-> "JSON"]>>
  ELSE <<"event", [timestamp |-> convene_dt, type |-> CONVENE_SCHEDULED,
                   source |-> "JSON"]>>

\* The event Senate._load_json builds from a schedule record whose first
\* floorProceedings entry names the instant convene_dt, read at instant t:
\* <<"event", e>>, or <<"raise", "ValueError">> when the two are equal.
json_event(convene_dt, t) ==
  IF convene_dt < t
  THEN <<"event", [timestamp |-> convene_dt, type |-> CONVENE,
                   source |-> "JSON"]>>
  ELSE IF convene_dt > t
  THEN <<"event", [timestamp |-> convene_dt, type |-> CONVENE_SCHEDULED,
                   source |-> "JSON"]>>
  ELSE <<"raise", "ValueError">>

\* Senate._load_json() once urlopen has returned the record `senate_data`
\* at instant t.  self._convened is None from construction on and nothing
\* assigns it, so `convened != self._convened` is always true and the
\* event is always merged.
load_json(log, senate_data, t) ==
  IF ~senate_data.well_formed
  THEN [events |-> log, ret |-> 0, exc |-> "JSONDecodeError"]
  ELSE LET built == json_event(senate_data.convene, t) IN
       IF built[1] = "raise"
       THEN [events |-> log, ret |-> 0, exc |-> built[2]]
       ELSE [events |-> senate_add_floor_action(log, built[2]).events,
             ret |-> 1, exc |-> "none"]

\* The text of a recess or adjournment section is the tuple
\* <<section, at, until>>: at is the instant its "at" time gives on the
\* document's day, or None when the text has no time there; until is the
\* instant its "until" clause names, None when the text has no "until",
\* <<"notime">> when no time follows it, <<"nodate">> when no date does.

\* Senate._parse_next_convening(depart_text): <<"event", e>>, or
\* <<"raise", e>>: re.search gives None and .span() or .groups() is read
\* from it, or datetime.combine gets None for a time.
parse_next_convening(until) ==
  IF until = None THEN <<"raise", "AttributeError">>
  ELSE IF until = <<"nodate">> THEN <<"raise", "AttributeError">>
  ELSE IF until = <<"notime">> THEN <<"raise", "TypeError">>
  ELSE <<"event", [timestamp |-> until[2], type |-> CONVENE_SCHEDULED,
                   source |-> "XML"]>>

\* The body Senate._parse_recess and Senate._parse_adjournment share: the
\* departure event of kind `kind`, then the next convening.
parse_departure(section, kind) ==
  IF section[2] = None THEN [events |-> <<>>, exc |-> "TypeError"]
  ELSE LET next == parse_next_convening(section[3]) IN
       IF next[1] = "raise" THEN [events |-> <<>>, exc |-> next[2]]
       ELSE [events |-> <<[timestamp |-> section[2][2], type |-> kind,
                           source |-> "XML"], next[2]>>,
             exc |-> "none"]

\* Senate._parse_recess: the event's type is chambers.const.RECESS.
parse_recess(section) == parse_departure(section, RECESS)

\* Senate._parse_adjournment
parse_adjournment(section) == parse_departure(section, ADJOURN)

\* The list new_events Senate._load_xml builds from a floor document: the
\* CONVENE of the intro text when it names a time, then the events of the
\* recess section, then those of the adjournment section; exc names the
\* exception a parser raised.  A floor document is the record
\* [well_formed, has_intro, convene, recess, adjournment]: convene is None
\* or the instant the intro text names, recess and adjournment are None or
\* the text of the section.
new_events(floor_proceedings) ==
  LET intro == IF floor_proceedings.convene # None
               THEN <<[timestamp |-> floor_proceedings.convene[2],
                       type |-> CONVENE, source |-> "XML"]>>
               ELSE <<>>
      recess == IF floor_proceedings.recess # None
                THEN parse_recess(floor_proceedings.recess)
                ELSE [events |-> <<>>, exc |-> "none"]
      adjournment == IF floor_proceedings.adjournment # None
                     THEN parse_adjournment(floor_proceedings.adjournment)
                     ELSE [events |-> <<>>, exc |-> "none"]
  IN IF recess.exc # "none" THEN [events |-> <<>>, exc |-> recess.exc]
     ELSE IF adjournment.exc # "none"
     THEN [events |-> <<>>, exc |-> adjournment.exc]
     ELSE [events |-> intro \o recess.events \o adjournment.events,
           exc |-> "none"]

\* The last loop of Senate._load_xml: every new event goes through
\* _add_floor_action and is counted.
RECURSIVE AddNewEvents(_, _, _)
AddNewEvents(log, batch, k) ==
  IF k > Len(batch) THEN log
  ELSE AddNewEvents(senate_add_floor_action(log, batch[k]).events, batch,
                    k + 1)

\* Senate._load_xml(floor_proceedings, source_url): a document that does
\* not parse, or has no intro_text element, gives 0 and adds nothing; an
\* exception of a section parser leaves before any event is merged.
senate_load_xml(log, floor_proceedings) ==
  IF ~floor_proceedings.well_formed
  THEN [events |-> log, ret |-> 0, exc |-> "none"]
  ELSE IF ~floor_proceedings.has_intro
  THEN [events |-> log, ret |-> 0, exc |-> "none"]
  ELSE LET batch == new_events(floor_proceedings) IN
       IF batch.exc # "none"
       THEN [events |-> log, ret |-> 0, exc |-> batch.exc]
       ELSE [events |-> AddNewEvents(log, batch.events, 1),
             ret |-> Len(batch.events), exc |-> "none"]

\* The instants the first floorProceedings entry of a served schedule
\* record may name: the day's convening, or one ten minutes after the last
\* instant the clock shows.
ScheduleConvenings == {1, MaxTime + TEN_MINUTES}

\* What urlopen of the schedule record may give: URLError, a body that is
\* not JSON, or a record.
ScheduleResponses ==
  {[kind |-> "URLError"]}
  \cup {[kind |-> "json", well_formed |-> FALSE, convene |-> 0]}
  \cup {[kind |-> "json", well_formed |-> TRUE, convene |-> c] :
          c \in ScheduleConvenings}

\* timedelta(days=1), in steps of the clock.
DAY == 2880

\* Midnight three days before instant 0 (instant 0 is a midnight): the
\* day of the session before the current one.
LastSession == 0 - 3 * DAY

\* The floor documents www.senate.gov may serve: the current day's with
\* its convening at instant 1 and its adjournment at instant 2 and the
\* next convening that announces; the current day's without an
\* intro_text element; the one of the last session, three days earlier,
\* with the same times of day; or a body that is not XML (the 404 page).
FloorDocuments ==
  {[well_formed |-> TRUE, has_intro |-> TRUE, convene |-> c,
    recess |-> None, adjournment |-> a] :
     c \in {None, Dt(1)},
     a \in {None} \cup
           {<<"adjournment", Dt(2), Dt(u)>> : u \in NextConvenings}}
  \cup {[well_formed |-> TRUE, has_intro |-> FALSE, convene |-> None,
         recess |-> None,
         adjournment |-> <<"adjournment", Dt(2), Dt(MaxTime + TEN_MINUTES)>>]}
  \cup {[well_formed |-> TRUE, has_intro |-> TRUE,
         convene |-> Dt(LastSession + 1), recess |-> None,
         adjournment |-> <<"adjournment", Dt(LastSession + 2), Dt(1)>>]}
  \cup {[well_formed |-> FALSE, has_intro |-> FALSE, convene |-> None,
         recess |-> None, adjournment |-> None]}

\* What requests.get of a floor document may do: raise ConnectionError, or
\* return a response with its redirect history (the status codes of the
\* earlier exchanges), its ok flag and its content.
FloorResponses ==
  {[kind |-> "ConnectionError"]}
  \cup {[kind |-> "response", history |-> h, ok |-> o, content |-> d] :
          h \in {<<>>, <<200>>, <<302>>}, o \in BOOLEAN, d \in FloorDocuments}

\* The loadable test of Senate._load: "True", "False", or "IndexError"
\* when the response is not ok and its history is empty (history[0]).
loadable(response) ==
  IF Len(response.history) = 0 /\ response.ok THEN "True"
  ELSE IF Len(response.history) = 0 THEN "IndexError"
  ELSE IF response.history[1] = 200 THEN "True"
  ELSE "False"

\* The end of Senate._load and of Senate.update on the sorted log at
\* instant t: _load assigns what _set_next_update returns (None when the
\* chamber is not convened); update, unless forced, calls _set_next_update
\* once more.
senate_next_update(log, t, force) ==
  LET in_load == set_next_update(log, Dt(t), None, t).ret
  IN IF force THEN in_load
     ELSE set_next_update(log, Dt(t), in_load, t).next_update

\* ----------------------------------------------------------------------
\* The driver (chambers/daemon.py, ChamberWatcher.run) with one chamber:
\* while _mqtt_status is 'connected' it calls update() and publishes the
\* chamber's signals, one message after the other, when update returned
\* True.  An exception leaving update ends the run loop.
\* ChamberWatcher.__init__ constructs a House
\* and then a Senate; Senate.__init__ passes Chamber.__init__ two
\* arguments too many and raises TypeError.  Specification Spec is the
\* driver with the House; the Senate's refresh is exercised by the
\* specification SpecChambers, in which a harness sets a Senate up with
\* the arguments Chamber.__init__ accepts and runs the driver's loop on it.
\* ----------------------------------------------------------------------

\* The log of a status file an earlier run saved: the convening announced
\* for instant 1, in the shape chamber n stores.
CachedLog(n) ==
  IF n = "House"
  THEN <<[type |-> CONVENE_SCHEDULED, timestamp |-> 1, id |-> <<"ts", 1>>]>>
  ELSE <<[timestamp |-> 1, type |-> CONVENE_SCHEDULED, source |-> "XML"]>>

\* The status files chamber n may find at its cache path: saved two
\* minutes before instant 0, with next_update still the constructor's
\* 1900 or the instant 0.
CachedStatuses(n) ==
  {Snapshot(CachedLog(n), Dt(0 - TWO_MINUTES), nxt) :
     nxt \in {Dt(Year1900), Dt(0)}}

\* Chamber.__init__(name, ...) down to the test for the cache file (lines
\* 41-63): the fields are initialised; without a cache file the
\* constructor returns, with one it goes on to load_cache() and update().
ChamberInit(n) ==
  /\ mqtt_status = "connecting"
  /\ name = n
  /\ events = <<>>
  /\ updated = Dt(Year1900)
  /\ next_update = Dt(Year1900)
  /\ today_ok = FALSE
  /\ day_i = 0
  /\ now = 0
  /\ obs = Idle
  /\ \/ cache = NoCache /\ pc = "idle"
     \/ /\ \E status \in CachedStatuses(n) :
             cache = [path |-> status, new |-> Missing]
        /\ pc = "construct"

\* Senate(...): Senate.__init__ calls Chamber.__init__ with five
\* positional arguments and raises TypeError; no Senate comes to exist.
SenateInitRaises ==
  /\ mqtt_status = "connecting"
  /\ name = "Senate"
  /\ events = <<>>
  /\ updated = Dt(Year1900)
  /\ next_update = Dt(Year1900)
  /\ today_ok = FALSE
  /\ day_i = 0
  /\ cache = NoCache
  /\ now = 0
  /\ pc = "crashed"
  /\ obs = [op |-> "init", ret |-> "TypeError"]

\* ChamberWatcher.__init__: connect() has left the status 'connecting'
\* (72); then House(...) and Senate(...).
Init == ChamberInit("House") \/ SenateInitRaises

\* A harness sets up a chamber of either class: House(), or a Senate on
\* which it calls Chamber.__init__("Senate", ...) itself.
InitChambers == \E n \in {"House", "Senate"} : ChamberInit(n)

\* What a caller of update learns and keeps while it runs.
Running(force) == [op |-> "update", force |-> force, ret |-> "running"]

\* op is "update" for a call of the driver and "init" for the call
\* Chamber.__init__ makes.
Returned(value) == [op |-> obs.op, force |-> obs.force, ret |-> value]

\* A House.update gate that is due from the instant next_update on.
house_due_at_or_after(force, log, nxt, t) ==
  IF force THEN TRUE
  ELSE IF Len(log) = 0 THEN TRUE
  ELSE t >= nxt[2]

\* House.update(force): whether a branch that loads is taken.
house_due(force, log, nxt, t) ==
  IF force THEN TRUE
  ELSE IF Len(log) = 0 THEN TRUE
  ELSE t > nxt[2]

\* A Senate.update gate for which an unset next_update is never due.
senate_due_unset_never(force, nxt, t) ==
  IF force THEN TRUE
  ELSE IF nxt = None THEN FALSE
  ELSE t > nxt[2]

\* Senate.update(force): whether a branch that loads is taken.
senate_due(force, nxt, t) ==
  IF force THEN TRUE
  ELSE IF nxt = None THEN TRUE
  ELSE t > nxt[2]

\* A driver that publishes although House.update returned False.
HouseUpdateNotDuePublishes ==
  /\ name = "House"
  /\ pc = "idle"
  /\ \E force \in BOOLEAN :
       /\ ~house_due(force, events, next_update, now)
       /\ obs' = [op |-> "update", force |-> force, ret |-> "False"]
  /\ pc' = "publish"
  /\ UNCHANGED <<mqtt_status, name, cache, events, now, updated,
               next_update, today_ok, day_i>>

\* House.update(force) when no branch loads: returns False.
HouseUpdateNotDue ==
  /\ name = "House"
  /\ pc = "idle"
  /\ \E force \in BOOLEAN :
       /\ ~house_due(force, events, next_update, now)
       /\ obs' = [op |-> "update", force |-> force, ret |-> "False"]
  /\ UNCHANGED <<mqtt_status, name, cache, events, now, refresh>>

\* House.update(force) up to the first requests.get of _load.
HouseUpdateLoad ==
  /\ name = "House"
  /\ pc = "idle"
  /\ \E force \in BOOLEAN :
       /\ house_due(force, events, next_update, now)
       /\ obs' = Running(force)
  /\ pc' = "today"
  /\ UNCHANGED <<mqtt_status, name, cache, events, now, updated,
               next_update, today_ok, day_i>>

\* House._load from the fetch of today's journal to the next fetch.  On
\* ConnectionError _load returns False and update goes on to
\* _set_next_update and returns True.
HouseFetchToday ==
  /\ name = "House"
  /\ pc = "today"
  /\ \E response \in Responses(now) :
       IF response.kind = "ConnectionError"
       THEN /\ next_update' =
                 set_next_update(events, updated, next_update, now).next_update
            /\ pc' = "publish"
            /\ obs' = Returned("True")
            /\ UNCHANGED <<events, updated, today_ok, day_i>>
       ELSE \E loaded \in {IF response.ok
                           THEN load_xml(events, response.content, FALSE)
                           ELSE [events |-> events, ret |-> 0,
                                 exc |-> "none"]} :
               /\ Len(loaded.events) <= MaxLog
               /\ events' = loaded.events
               /\ IF loaded.exc # "none"
                  THEN /\ pc' = "crashed"
                       /\ obs' = Returned(loaded.exc)
                       /\ UNCHANGED <<today_ok, day_i>>
                  ELSE /\ pc' = "prior"
                       /\ today_ok' = response.ok
                       /\ day_i' = 1
                       /\ obs' = obs
               /\ UNCHANGED <<updated, next_update>>
  /\ UNCHANGED <<mqtt_status, name, cache, now>>

\* House._load from one fetch of a prior day's journal to the next fetch
\* or, when the response is ok, through _sort_events and _set_next_update
\* to the return of update.  A ConnectionError here is not caught.
HouseFetchPriorGot(response) ==
  /\ name = "House"
  /\ pc = "prior"
  /\ IF response.kind = "ConnectionError"
       THEN /\ pc' = "crashed"
            /\ today_ok' = FALSE
            /\ day_i' = 0
            /\ obs' = Returned("ConnectionError")
            /\ UNCHANGED <<events, updated, next_update>>
       ELSE IF ~response.ok
       THEN /\ day_i < MaxDays
            /\ day_i' = day_i + 1
            /\ UNCHANGED <<events, updated, next_update, pc, today_ok, obs>>
       ELSE \E loaded \in {load_xml(events, response.content, today_ok)} :
               /\ Len(loaded.events) <= MaxLog
               /\ today_ok' = FALSE
               /\ day_i' = 0
               /\ IF loaded.exc # "none"
                  THEN /\ events' = loaded.events
                       /\ pc' = "crashed"
                       /\ obs' = Returned(loaded.exc)
                       /\ UNCHANGED <<updated, next_update>>
                  ELSE /\ events' = sort_events(loaded.events)
                       /\ pc' = "publish"
                       /\ updated' = Dt(now)
                       /\ next_update' =
                            set_next_update(events', updated', next_update,
                                            now).next_update
                       /\ obs' = Returned("True")
  /\ UNCHANGED <<mqtt_status, name, cache, now>>

\* One pass of the loop: requests.get may return any of the responses.
HouseFetchPrior ==
  \E response \in Responses(now) : HouseFetchPriorGot(response)

\* Senate.update(force) when no branch loads: returns False.
SenateUpdateNotDue ==
  /\ name = "Senate"
  /\ pc = "idle"
  /\ \E force \in BOOLEAN :
       /\ ~senate_due(force, next_update, now)
       /\ obs' = [op |-> "update", force |-> force, ret |-> "False"]
  /\ UNCHANGED <<mqtt_status, name, cache, events, now, refresh>>

\* The days argument Senate.update hands to _load: only the branch taken
\* when now is after next_update passes it on; the forced branch and the
\* branch for an unset next_update call _load() with days=None.
load_days(force, nxt, days) ==
  IF force THEN None
  ELSE IF nxt = None THEN None
  ELSE days

\* What a caller of Senate.update learns and what _load keeps while it
\* runs: its days argument (None or <<"days", n>>) and days_loaded.
SenateRunning(force, days) ==
  [op |-> "update", force |-> force, ret |-> "running", days |-> days,
   days_loaded |-> 0]

\* Senate.update(force, days) up to the urlopen of _load_json.
SenateUpdateLoadDays(days) ==
  /\ name = "Senate"
  /\ pc = "idle"
  /\ \E force \in BOOLEAN :
       /\ senate_due(force, next_update, now)
       /\ obs' = SenateRunning(force, load_days(force, next_update, days))
  /\ pc' = "schedule"
  /\ UNCHANGED <<mqtt_status, name, cache, events, now, updated,
               next_update, today_ok, day_i>>

\* The driver calls update() without arguments: days is None.
SenateUpdateLoad == SenateUpdateLoadDays(None)

\* Senate._load_json, then _load up to the first requests.get.  URLError
\* becomes ChamberExceptionRecoverable, which nothing catches.
SenateLoadJson ==
  /\ name = "Senate"
  /\ pc = "schedule"
  /\ \E response \in ScheduleResponses :
       IF response.kind = "URLError"
       THEN /\ pc' = "crashed"
            /\ obs' = Returned("ChamberExceptionRecoverable")
            /\ UNCHANGED <<events, day_i>>
       ELSE \E loaded \in {load_json(events, response, now)} :
               /\ events' = loaded.events
               /\ IF loaded.exc # "none"
                  THEN /\ pc' = "crashed"
                       /\ obs' = Returned(loaded.exc)
                       /\ UNCHANGED day_i
                  ELSE /\ pc' = "floor"
                       /\ day_i' = 0
                       /\ obs' = obs
  /\ UNCHANGED <<mqtt_status, name, cache, now, updated, next_update, today_ok>>

\* A loop that ends on either condition, whether a day limit was given or
\* not.
done_loading_either(log, t, days, days_loaded) ==
  \/ /\ search_events(log, t, FALSE, {CONVENE}) # None
     /\ search_events(log, t, FALSE, {ADJOURN}) # None
  \/ IF days = None THEN FALSE ELSE days_loaded >= days[2]

\* The end condition of the loop of Senate._load after a pass: without a
\* day limit, a CONVENE and an ADJOURN at or before now in the log; with
\* one, that many days loaded.
done_loading(log, t, days, days_loaded) ==
  IF days = None
  THEN /\ search_events(log, t, FALSE, {CONVENE}) # None
       /\ search_events(log, t, FALSE, {ADJOURN}) # None
  ELSE days_loaded >= days[2]

\* Senate._load from one requests.get of a floor document to the next or,
\* when the end condition holds, through _sort_events and the scheduler
\* to the return of update.
SenateFetchFloorGot(response) ==
  /\ name = "Senate"
  /\ pc = "floor"
  /\ IF response.kind = "ConnectionError"
       THEN /\ pc' = "crashed"
            /\ day_i' = 0
            /\ obs' = Returned("ConnectionError")
            /\ UNCHANGED <<events, updated, next_update>>
       ELSE IF loadable(response) = "IndexError"
       THEN /\ pc' = "crashed"
            /\ day_i' = 0
            /\ obs' = Returned("IndexError")
            /\ UNCHANGED <<events, updated, next_update>>
       ELSE \E loaded \in {IF loadable(response) = "True"
                           THEN senate_load_xml(events, response.content)
                           ELSE [events |-> events, ret |-> 0,
                                 exc |-> "none"]},
               days_loaded \in {IF loadable(response) = "True"
                                THEN obs.days_loaded + 1
                                ELSE obs.days_loaded} :
               IF loaded.exc # "none"
               THEN /\ pc' = "crashed"
                    /\ day_i' = 0
                    /\ obs' = Returned(loaded.exc)
                    /\ UNCHANGED <<events, updated, next_update>>
               ELSE IF done_loading(loaded.events, now, obs.days, days_loaded)
               THEN /\ events' = sort_events(loaded.events)
                    /\ updated' = Dt(now)
                    /\ next_update' = senate_next_update(events', now, obs.force)
                    /\ pc' = "publish"
                    /\ day_i' = 0
                    /\ obs' = Returned("True")
               ELSE /\ day_i < MaxDays
                    /\ events' = loaded.events
                    /\ day_i' = day_i + 1
                    /\ obs' = [obs EXCEPT !.days_loaded = days_loaded]
                    /\ UNCHANGED <<updated, next_update, pc>>
  /\ UNCHANGED <<mqtt_status, name, cache, now, today_ok>>

\* One pass of the loop: requests.get may return any of the responses.
SenateFetchFloor ==
  \E response \in FloorResponses : SenateFetchFloorGot(response)

\* The positions of ChamberWatcher.run between update's return and the
\* last of the chamber's five messages.
PublishStages ==
  {"publish", "publish_adjourned_at", "publish_convened_at",
   "publish_convenes_at", "publish_next_update"}

\* datetime.isoformat()
isoformat(dt) == <<"isoformat", dt[2]>>

\* ChamberWatcher._pub_message(topic, payload) for a payload that is a
\* datetime or None: what is handed to the MQTT client.
pub_message(topic, payload) ==
  [op |-> "publish", topic |-> topic,
   payload |-> IF payload[1] = "dt" THEN isoformat(payload) ELSE payload]

\* ChamberWatcher.run after update returned True: convened is read at the
\* clock of this moment and published.  Every property reads the clock
\* itself and a message goes out between two reads: the five messages
\* are five steps, and the clock may move between them.
PublishConvened ==
  /\ pc = "publish"
  /\ obs.op = "update"
  /\ obs' = [op |-> "publish", topic |-> "convened",
             payload |-> convened(events, now)]
  /\ pc' = IF convened(events, now) = "KeyError" THEN "crashed"
           ELSE "publish_adjourned_at"
  /\ UNCHANGED <<mqtt_status, name, cache, events, now, updated,
               next_update, today_ok, day_i>>

PublishAdjournedAt ==
  /\ pc = "publish_adjourned_at"
  /\ obs' = pub_message("adjourned_at", adjourned_at(events, now))
  /\ pc' = IF adjourned_at(events, now) = <<"KeyError">> THEN "crashed"
           ELSE "publish_convened_at"
  /\ UNCHANGED <<mqtt_status, name, cache, events, now, updated,
               next_update, today_ok, day_i>>

PublishConvenedAt ==
  /\ pc = "publish_convened_at"
  /\ obs' = pub_message("convened_at", convened_at(events, now))
  /\ pc' = IF convened_at(events, now) = <<"KeyError">> THEN "crashed"
           ELSE "publish_convenes_at"
  /\ UNCHANGED <<mqtt_status, name, cache, events, now, updated,
               next_update, today_ok, day_i>>

PublishConvenesAt ==
  /\ pc = "publish_convenes_at"
  /\ obs' = pub_message("convenes_at", convenes_at(events, now))
  /\ pc' = IF convenes_at(events, now) = <<"KeyError">> THEN "crashed"
           ELSE "publish_next_update"
  /\ UNCHANGED <<mqtt_status, name, cache, events, now, updated,
               next_update, today_ok, day_i>>

PublishNextUpdate ==
  /\ pc = "publish_next_update"
  /\ obs' = pub_message("next_update", next_update)
  /\ pc' = "idle"
  /\ UNCHANGED <<mqtt_status, name, cache, events, now, updated,
               next_update, today_ok, day_i>>

Publish ==
  \/ PublishConvened
  \/ PublishAdjournedAt
  \/ PublishConvenedAt
  \/ PublishConvenesAt
  \/ PublishNextUpdate

\* Chamber.__init__ with a cache file (lines 63-65): load_cache() takes
\* events, updated and next_update from the status file, then update()
\* runs up to its first fetch, or returns False when it is not due.
ConstructLoadCache ==
  /\ pc = "construct"
  /\ events' = cache.path.events
  /\ updated' = cache.path.updated
  /\ next_update' = cache.path.next_update
  /\ IF name = "House"
     THEN IF house_due(FALSE, events', next_update', now)
          THEN /\ pc' = "today"
               /\ obs' = [Running(FALSE) EXCEPT !.op = "init"]
          ELSE /\ pc' = "idle"
               /\ obs' = Idle
     ELSE IF senate_due(FALSE, next_update', now)
          THEN /\ pc' = "schedule"
               /\ obs' = [SenateRunning(FALSE, None) EXCEPT !.op = "init"]
          ELSE /\ pc' = "idle"
               /\ obs' = Idle
  /\ UNCHANGED <<mqtt_status, name, cache, now, today_ok, day_i>>

\* The update() of Chamber.__init__ has returned True: the constructor
\* returns; nothing is published.
ConstructReturn ==
  /\ pc = "publish"
  /\ obs.op = "init"
  /\ pc' = "idle"
  /\ obs' = Idle
  /\ UNCHANGED <<mqtt_status, name, cache, events, now, updated,
               next_update, today_ok, day_i>>

\* run with _mqtt_status 'disconnected' (195-196): connect().  The broker
\* takes the connection and the status is 'connecting', or the connection
\* fails with a ConnectionError and connect calls sys.exit(1): the loop
\* has ended, the chamber as it was.  With the status 'connecting' or
\* 'disconnected-planned' (197-198) a pass of the loop changes nothing.
\* As at a step of the clock, nothing is kept of what the last update
\* reported.
RunConnect ==
  /\ pc = "idle"
  /\ mqtt_status = "disconnected"
  /\ \/ mqtt_status' = "connecting" /\ pc' = pc
     \/ mqtt_status' = mqtt_status /\ pc' = "exited"
  /\ obs' = Idle
  /\ UNCHANGED <<name, cache, events, now, updated, next_update, today_ok,
               day_i>>

\* _on_connect, called by the thread of the MQTT client when the broker
\* acknowledges.  run reads the status at the top of a pass only; a
\* callback that arrives during a pass is taken at the next reading.
OnConnect ==
  /\ pc = "idle"
  /\ mqtt_status = "connecting"
  /\ mqtt_status' = "connected"
  /\ obs' = Idle
  /\ UNCHANGED <<name, cache, events, now, refresh>>

\* _on_disconnect: 'disconnected' for a reason code other than 0,
\* 'disconnected-planned' for 0.
OnDisconnect ==
  /\ pc = "idle"
  /\ mqtt_status \in {"connecting", "connected"}
  /\ mqtt_status' \in {"disconnected", "disconnected-planned"}
  /\ obs' = Idle
  /\ UNCHANGED <<name, cache, events, now, refresh>>

\* The loop ends while the chamber is idle: a signal handler calls
\* cleanup_and_exit, or, in a run over both chambers, the update of the
\* other chamber raises.
RunEnds ==
  /\ pc = "idle"
  /\ pc' = "exited"
  /\ obs' = Idle
  /\ UNCHANGED <<mqtt_status, name, cache, events, now, updated, next_update,
               today_ok, day_i>>

\* run calls update() in its else branch only (199-215): the loop runs and
\* the status it reads is 'connected'.
CallsUpdate == mqtt_status = "connected" /\ pc \notin {"crashed", "exited"}

\* The clock moves on.  Between two calls of update nothing is kept of
\* what the last one reported.
Tick ==
  /\ now < MaxTime
  /\ pc \notin {"crashed", "exited"}
  /\ now' = now + 1
  /\ obs' = IF pc = "idle" THEN Idle ELSE obs
  /\ UNCHANGED <<mqtt_status, name, cache, events, refresh>>

Next ==
  \/ ConstructLoadCache
  \/ ConstructReturn
  \/ RunConnect
  \/ OnConnect
  \/ OnDisconnect
  \/ RunEnds
  \/ CallsUpdate /\ HouseUpdateNotDue
  \/ CallsUpdate /\ HouseUpdateLoad
  \/ HouseFetchToday
  \/ HouseFetchPrior
  \/ Publish
  \/ Tick

Spec == Init /\ [][Next]_vars

NextChambers ==
  \/ ConstructLoadCache
  \/ ConstructReturn
  \/ RunConnect
  \/ OnConnect
  \/ OnDisconnect
  \/ RunEnds
  \/ CallsUpdate /\ HouseUpdateNotDue
  \/ CallsUpdate /\ HouseUpdateLoad
  \/ HouseFetchToday
  \/ HouseFetchPrior
  \/ CallsUpdate /\ SenateUpdateNotDue
  \/ CallsUpdate /\ SenateUpdateLoad
  \/ SenateLoadJson
  \/ SenateFetchFloor
  \/ Publish
  \/ Tick

SpecChambers == InitChambers /\ [][NextChambers]_vars


\* ----------------------------------------------------------------------
\* Claims about the House refresh.
\* ----------------------------------------------------------------------

\* C6: after any sequence of House refreshes, no two events of the log
\* have the same id (floor actions by unique-id, end-of-day records by
\* their own timestamp).
C6_UniqueIds ==
  (name = "House" /\ pc = "idle") =>
    \A i, j \in 1..Len(events) : i # j => events[i].id # events[j].id


\* ----------------------------------------------------------------------
\* Claims about ingest and the log after a refresh.
\* ----------------------------------------------------------------------

\* Ingesting the journal house_xml twice gives the log that ingesting it
\* once gives.
HouseIngestIdempotent(log, house_xml) ==
  \A only_eod \in BOOLEAN :
    LET once == load_xml(log, house_xml, only_eod).events
    IN load_xml(once, house_xml, only_eod).events = once

\* The same for a Senate floor document and for a Senate schedule record
\* read at instant t.
SenateIngestIdempotent(log, t) ==
  /\ \A floor_proceedings \in FloorDocuments :
       LET once == senate_load_xml(log, floor_proceedings).events
       IN senate_load_xml(once, floor_proceedings).events = once
  /\ \A senate_data \in {r \in ScheduleResponses : r.kind = "json"} :
       LET once == load_json(log, senate_data, t).events
       IN load_json(once, senate_data, t).events = once

\* C11: for either chamber, merging the same batch of source records into
\* the log twice yields the same log as merging it once.
C11_IdempotentIngest ==
  pc = "idle" =>
    IF name = "House"
    THEN \A house_xml \in Journals(now) : HouseIngestIdempotent(events, house_xml)
    ELSE SenateIngestIdempotent(events, now)

\* The log is in descending timestamp order; neighbours may share a
\* timestamp.
Descending(log) ==
  \A i \in 1..(Len(log) - 1) : log[i].timestamp >= log[i + 1].timestamp

\* The log is in strictly descending timestamp order.
StrictlyDescending(log) ==
  \A i \in 1..(Len(log) - 1) : log[i].timestamp > log[i + 1].timestamp

\* C12: after every completed refresh of either chamber, and therefore
\* whenever the signals are read between two refreshes, the log is in
\* strictly descending timestamp order: each event's timestamp is
\* strictly greater than that of the event after it.
C12_StrictlyDescending ==
  pc \in {"idle"} \cup PublishStages => StrictlyDescending(events)

\* The limit of Chamber._trim_event_log at instant t: one day before t,
\* with hour, minute and second set to zero (instant 0 is a midnight).
trim_limit(t) == (t - DAY) - ((t - DAY) % DAY)

\* C13: after every completed refresh, every event older than the start
\* of the previous day has been removed from the log, except that the
\* three events with the greatest timestamps are always retained.
C13_Trimmed ==
  (pc = "publish" /\ obs.ret = "True") =>
    \A i \in 1..Len(events) :
      events[i].timestamp < trim_limit(now) => i <= 3


\* ----------------------------------------------------------------------
\* Claims about the scheduler.
\* ----------------------------------------------------------------------

\* A step in which update() ends a refresh that stamped `updated` with the
\* current instant, and returns True.
RefreshCompletes ==
  /\ pc \in {"prior", "floor"}
  /\ pc' = "publish"
  /\ updated' = Dt(now)

\* updated + 2 minutes with the seconds set to zero.
TwoMinutesAfter(t) == Dt(ZeroSeconds(t + TWO_MINUTES))

\* The instant the scheduler rule names for a log refreshed at instant t:
\* 2 minutes when convened, ten minutes before the next convening when
\* that is still ahead, 60 seconds when it is missed, 10 minutes when no
\* convening is known.
SchedulerRule(log, t) ==
  IF convened(log, t) = "True" THEN TwoMinutesAfter(t)
  ELSE IF convenes_at(log, t) # None
  THEN IF convenes_at(log, t)[2] - TEN_MINUTES > t
       THEN Dt(convenes_at(log, t)[2] - TEN_MINUTES)
       ELSE Dt(t + SIXTY_SECONDS)
  ELSE Dt(t + TEN_MINUTES)

\* C14: after any refresh of either chamber, forced or due, that leaves
\* convened = TRUE, next_update is the new updated instant plus 2 minutes
\* with the seconds zeroed.
C14_ConvenedTwoMinutes ==
  [][(RefreshCompletes /\ convened(events', now) = "True")
       => next_update' = TwoMinutesAfter(now)]_vars

\* C15: after any refresh that leaves the chamber not convened with
\* convenes_at known, next_update is convenes_at minus 10 minutes when
\* that is still in the future, and updated plus 60 seconds otherwise.
C15_BeforeConvening ==
  [][(/\ RefreshCompletes
      /\ convened(events', now) = "False"
      /\ convenes_at(events', now) # None)
       => next_update' =
            IF convenes_at(events', now)[2] - TEN_MINUTES > now
            THEN Dt(convenes_at(events', now)[2] - TEN_MINUTES)
            ELSE Dt(now + SIXTY_SECONDS)]_vars

\* C16: after any refresh that leaves convened FALSE or UNKNOWN and
\* convenes_at absent, next_update is updated plus 10 minutes.
C16_NothingScheduled ==
  [][(/\ RefreshCompletes
      /\ convened(events', now) \in {"False", "Unknown"}
      /\ convenes_at(events', now) = None)
       => next_update' = Dt(now + TEN_MINUTES)]_vars

\* The differences next_update - updated the scheduler may leave after a
\* refresh of `log` at instant t.
SchedulerSteps(log, t) ==
  {TwoMinutesAfter(t)[2] - t, TWO_MINUTES, SIXTY_SECONDS, TEN_MINUTES}
  \cup (IF convenes_at(log, t) # None
        THEN {convenes_at(log, t)[2] - TEN_MINUTES - t}
        ELSE {})

\* C17: after every completed refresh of either chamber next_update is a
\* defined instant, next_update - updated is not negative, and it is one
\* of 2 minutes, 60 seconds, 10 minutes, (convenes_at - 10 minutes) -
\* updated.
C17_SchedulerBounds ==
  [][RefreshCompletes =>
       IF next_update' = None THEN FALSE
       ELSE /\ next_update'[2] - now >= 0
            /\ next_update'[2] - now \in SchedulerSteps(events', now)]_vars

\* C18: update(force=true) always performs a refresh, whatever
\* next_update is, and when it returns next_update holds the value the
\* scheduler rule gives for the refreshed log.
C18_ForcedUpdate ==
  [][/\ (IF pc = "idle" /\ obs'.op = "update" THEN obs'.force ELSE FALSE)
          => obs'.ret = "running"
     /\ (RefreshCompletes /\ obs.force)
          => next_update' = SchedulerRule(events', now)]_vars


\* ----------------------------------------------------------------------
\* Claims about the gate of update and the driver.
\* ----------------------------------------------------------------------

\* A step in which update(force=False) is called.
UnforcedCall ==
  IF pc = "idle" /\ obs'.op = "update" THEN ~obs'.force ELSE FALSE

\* The call made in this step loads (it does not return False).
CallLoads == obs'.ret = "running" /\ pc' # "idle"

\* C19 (as stated): update(force=false) performs a refresh if and only if
\* next_update is unknown or now >= next_update.
C19_DueAtOrAfter ==
  [][UnforcedCall =>
       (CallLoads <=> (IF next_update = None THEN TRUE
                       ELSE now >= next_update[2]))]_vars

\* C19 (amended): update(force=false) performs a refresh if and only if
\* now is strictly after next_update, or, in the Senate, next_update is
\* unknown, or, in the House, the log is empty; at now = next_update no
\* fetch is made.
C19_DueStrictlyAfter ==
  [][UnforcedCall =>
       (CallLoads <=> (IF name = "House" /\ events = <<>> THEN TRUE
                       ELSE IF next_update = None THEN name = "Senate"
                       ELSE now > next_update[2]))]_vars

\* update(force=false) has returned False at the very instant next_update
\* names, on a log that is not empty.
C19_Witness ==
  /\ pc = "idle"
  /\ obs.op = "update"
  /\ obs.ret = "False"
  /\ ~obs.force
  /\ events # <<>>
  /\ next_update = Dt(now)

\* C20: an update that is not due returns False and leaves the log,
\* updated and next_update unchanged, and the driver publishes a chamber's
\* signals only after an update of the chamber that returned True.
C20_NotDueNoEffect ==
  [][/\ (IF pc = "idle" /\ obs'.op = "update"
         THEN obs'.ret = "False" ELSE FALSE)
          => /\ UNCHANGED <<events, updated, next_update>>
             /\ pc' = "idle"
             /\ ~obs'.force
     /\ (obs'.op = "publish" /\ obs.op # "publish")
          => IF obs.op = "update" THEN obs.ret = "True" ELSE FALSE]_vars

\* A House update has returned False with events in the log and
\* next_update still ahead: nothing is published before the clock moves.
C20_Witness ==
  /\ pc = "idle"
  /\ obs.op = "update"
  /\ obs.ret = "False"
  /\ events # <<>>
  /\ next_update # None
  /\ next_update[2] > now


\* ----------------------------------------------------------------------
\* Claims about failing fetches.
\* ----------------------------------------------------------------------

\* C21: when the House fetch of today's journal fails with a network
\* error, the refresh adds no events, update returns without raising, and
\* next_update is recomputed to an instant later than the failed attempt.
C21_TodayFetchFails ==
  [][(name = "House" /\ pc = "today" /\ pc' = "publish") =>
       /\ events' = events
       /\ obs'.ret = "True"
       /\ IF next_update' = None THEN FALSE ELSE next_update'[2] > now]_vars

\* C22: when the fetch of the Senate schedule record fails with a network
\* error during update, no exception leaves update: the log keeps its
\* events, next_update is recomputed and the driver goes on.
C22_ScheduleFetchFails ==
  [][(name = "Senate" /\ pc = "schedule") =>
       ~(pc' = "crashed" /\ obs'.ret = "ChamberExceptionRecoverable")]_vars


\* ----------------------------------------------------------------------
\* Claims about the Senate schedule record.
\* ----------------------------------------------------------------------

\* The log after the one event [timestamp, type] from the schedule record
\* has gone through the merge.
WithScheduleEvent(log, ct, kind) ==
  senate_add_floor_action(
    log, [timestamp |-> ct, type |-> kind, source |-> "JSON"]).events

\* C23: for the convene instant ct of the first floorProceedings entry the
\* schedule-record parser emits exactly one event, CONVENE at ct when
\* ct < now and CONVENE_SCHEDULED at ct when ct > now; when ct = now it
\* raises the "impossible state" error, emits nothing and leaves the log
\* unchanged.
C23_ScheduleRecordEvent ==
  (name = "Senate" /\ pc = "schedule") =>
    \A ct \in ScheduleConvenings :
      LET parsed == load_json(events,
                              [kind |-> "json", well_formed |-> TRUE,
                               convene |-> ct], now)
      IN IF ct < now
         THEN /\ parsed.exc = "none"
              /\ parsed.ret = 1
              /\ parsed.events = WithScheduleEvent(events, ct, CONVENE)
         ELSE IF ct > now
         THEN /\ parsed.exc = "none"
              /\ parsed.ret = 1
              /\ parsed.events =
                   WithScheduleEvent(events, ct, CONVENE_SCHEDULED)
         ELSE /\ parsed.exc = "ValueError"
              /\ parsed.ret = 0
              /\ parsed.events = events

\* A refresh of a Senate with events has ended in the "impossible state"
\* error: the schedule record named the very instant of the call.
C23_Witness ==
  /\ name = "Senate"
  /\ pc = "crashed"
  /\ obs.ret = "ValueError"
  /\ events # <<>>
  /\ now \in ScheduleConvenings

\* C24: on every Senate refresh the schedule-record event is merged only
\* when the convened state it implies (TRUE for CONVENE, FALSE for
\* CONVENE_SCHEDULED) differs from the convened state derived from the
\* log; when the two agree the step leaves the log unchanged.
C24_MergedOnlyOnChange ==
  (name = "Senate" /\ pc = "schedule") =>
    \A ct \in ScheduleConvenings \ {now} :
      LET implied == IF ct < now THEN "True" ELSE "False"
          parsed == load_json(events,
                              [kind |-> "json", well_formed |-> TRUE,
                               convene |-> ct], now)
      IN IF implied = convened(events, now)
         THEN parsed.events = events
         ELSE parsed.events =
                WithScheduleEvent(events, ct,
                                  IF ct < now THEN CONVENE
                                  ELSE CONVENE_SCHEDULED)


\* ======================================================================
\* The cache file (chambers/chamber.py: save_cache).  A harness holds a
\* House, merges end-of-day records into its log and calls save_cache();
\* the process may end between any two file-system steps of save_cache.
\* ======================================================================

InitCache ==
  /\ mqtt_status = None
  /\ name = "House"
  /\ Constructed
  /\ now = 0
  /\ obs = Idle

\* House._add_end_day between two calls of save_cache.
CacheAddEndDay ==
  /\ pc = "idle"
  /\ HouseAddEndDay

\* save_cache up to open(new_cache, 'wb'): the file at cache_path + ".new"
\* exists and is empty.  obs.old keeps what cache_path held at the call.
SaveCacheOpen ==
  /\ pc = "idle"
  /\ cache' = [cache EXCEPT !.new = Truncated]
  /\ pc' = "save_dump"
  /\ obs' = [op |-> "save_cache", old |-> cache.path]
  /\ UNCHANGED <<mqtt_status, name, events, now, updated, next_update, today_ok, day_i>>

\* pickle.dump and the end of the with block: the new file is complete.
SaveCacheDump ==
  /\ pc = "save_dump"
  /\ cache' = [cache EXCEPT !.new = Snapshot(events, updated, next_update)]
  /\ pc' = "save_remove"
  /\ UNCHANGED <<mqtt_status, name, events, now, updated, next_update, today_ok, day_i,
                 obs>>

\* os.remove(self.cache_path); FileNotFoundError is passed over.
SaveCacheRemove ==
  /\ pc = "save_remove"
  /\ cache' = [cache EXCEPT !.path = Missing]
  /\ pc' = "save_rename"
  /\ UNCHANGED <<mqtt_status, name, events, now, updated, next_update, today_ok, day_i,
                 obs>>

\* os.rename(new_cache, self.cache_path), and save_cache returns.
SaveCacheRename ==
  /\ pc = "save_rename"
  /\ cache' = [path |-> cache.new, new |-> Missing]
  /\ pc' = "idle"
  /\ UNCHANGED <<mqtt_status, name, events, now, updated, next_update, today_ok, day_i,
                 obs>>

\* load_cache(): without a file at cache_path it returns False; otherwise
\* events, updated and next_update are taken from the status file.
LoadCache ==
  /\ pc = "idle"
  /\ IF cache.path = Missing
     THEN /\ obs' = [op |-> "load_cache", ret |-> "False"]
          /\ UNCHANGED <<events, updated, next_update>>
     ELSE /\ events' = cache.path.events
          /\ updated' = cache.path.updated
          /\ next_update' = cache.path.next_update
          /\ obs' = [op |-> "load_cache", ret |-> "True"]
  /\ UNCHANGED <<mqtt_status, name, cache, now, pc, today_ok, day_i>>

\* The process ends inside save_cache; the files stay as they are.
SaveCacheCrash ==
  /\ pc \in {"save_dump", "save_remove", "save_rename"}
  /\ pc' = "crashed"
  /\ UNCHANGED <<mqtt_status, name, cache, events, now, updated,
                 next_update, today_ok, day_i, obs>>

NextCache ==
  \/ LoadCache
  \/ CacheAddEndDay
  \/ SaveCacheOpen
  \/ SaveCacheDump
  \/ SaveCacheRemove
  \/ SaveCacheRename
  \/ SaveCacheCrash

SpecCache == InitCache /\ [][NextCache]_vars

\* C25: cache writes are atomic: at every point during save_cache, a crash
\* included, the cache path holds the complete old snapshot or the
\* complete new one, and a chamber that had a cache file before the write
\* never finds the path missing or truncated.
C25_AtomicCacheWrite ==
  (pc \in {"save_dump", "save_remove", "save_rename", "crashed"}) =>
    /\ cache.path \in {obs.old, Snapshot(events, updated, next_update)}
    /\ obs.old # Missing => cache.path \notin {Missing, Truncated}

\* C26: every refresh performed by update, due or forced, persists the
\* chamber's cache (event log, updated, next_update) before the signals
\* are advertised, so that a restart reloads the refreshed log.
C26_PersistedBeforePublish ==
  (pc = "publish" /\ obs.ret = "True" /\ updated # Dt(Year1900)) =>
    cache.path = Snapshot(events, updated, next_update)


\* ----------------------------------------------------------------------
\* Claims about the derivations as time passes.
\* ----------------------------------------------------------------------

\* The instants of the CONVENE and ADJOURN events of the log.
SessionInstants(log) ==
  {log[i].timestamp : i \in {j \in 1..Len(log) :
                               /\ "type" \in DOMAIN log[j]
                               /\ log[j].type \in {CONVENE, ADJOURN}}}

\* C27: with the event log unchanged, as now advances the derived convened
\* value changes only at instants equal to the timestamp of a CONVENE or
\* ADJOURN event of the log (hence at most once between two adjacent such
\* timestamps).
C27_ConvenedFlipsAtEvents ==
  [][(events' = events /\ now' # now
      /\ convened(events, now') # convened(events, now))
       => now' \in SessionInstants(events)]_vars

\* The clock has moved onto the instant of an event and the convened value
\* read there differs from the one of the instant before.
C27_Witness ==
  /\ now > 0
  /\ obs.op = "convened"
  /\ obs.value # convened(events, now - 1)
  /\ obs.value = "True"
  /\ convened(events, now - 1) = "False"


\* ----------------------------------------------------------------------
\* Scenarios.
\* ----------------------------------------------------------------------

\* The answer of scenario S1 for every day: a 302 redirect to the 404
\* page, which reads as ok and is not XML.
Redirected404 ==
  {response \in FloorResponses :
     /\ response.kind = "response"
     /\ response.history = <<302>>
     /\ response.ok
     /\ ~response.content.well_formed}

\* The first refresh of a Senate is in its floor-document loop with the
\* log of scenario S1: nothing but the convening ct the schedule record
\* announced.
S1Loop(ct) ==
  /\ name = "Senate"
  /\ pc = "floor"
  /\ updated = Dt(Year1900)
  /\ ct > now
  /\ events = <<[timestamp |-> ct, type |-> CONVENE_SCHEDULED,
                 source |-> "JSON"]>>

\* A pass of the loop that gets the answer of scenario S1 and ends the
\* refresh.
S1Completes ==
  \E response \in Redirected404 :
    SenateFetchFloorGot(response) /\ pc' = "publish"

\* C28: scenario S1: from an empty Senate log, with a schedule record that
\* names a future convening ct and every floor-XML day answering with a
\* 302 redirect to the 404 page, the refresh completes and the signals are
\* convened = FALSE, convenes_at = ct, convened_at and adjourned_at absent.
C28_ScenarioS1 ==
  \A ct \in ScheduleConvenings :
    S1Loop(ct) =>
      /\ ENABLED S1Completes
      /\ convened(events, now) = "False"
      /\ convenes_at(events, now) = Dt(ct)
      /\ convened_at(events, now) = None
      /\ adjourned_at(events, now) = None


\* ======================================================================
\* The scheduler on an arbitrary log (specification SpecSched).  A test
\* harness builds a chamber whose log is any list of at most MaxSchedLog
\* events around the instant of its last refresh, sets _updated, and calls
\* _set_next_update.
\* ======================================================================

\* The longest log the scheduler harness stores.
MaxSchedLog == 2

\* timedelta(minutes=5), timedelta(hours=3): the distances scenario SCHED1
\* names.
FIVE_MINUTES == 5 * TICKS_PER_MINUTE

THREE_HOURS == 180 * TICKS_PER_MINUTE

\* The instants of the last refresh: on the minute and thirty seconds past.
SchedUpdated == {0, 1}

\* Where an event of the log lies relative to the last refresh.
SchedOffsets ==
  {0 - TEN_MINUTES, 0 - FIVE_MINUTES, 0, 1, FIVE_MINUTES, TEN_MINUTES + 1,
   THREE_HOURS}

SchedEvents(t) ==
  {[timestamp |-> t + off, type |-> k] :
     off \in SchedOffsets, k \in DeriveKinds}

\* The logs of the harness, in the order _sort_events leaves them.
SchedLogs(t) ==
  UNION {{log \in [1..n -> SchedEvents(t)] :
            \A i \in 1..(n - 1) : log[i].timestamp >= log[i + 1].timestamp} :
         n \in 0..MaxSchedLog}

InitSched ==
  /\ mqtt_status = None
  /\ name = "House"
  /\ \E t \in SchedUpdated :
       /\ updated = Dt(t)
       /\ events \in SchedLogs(t)
       /\ now \in {t, t + 1}
  /\ next_update = Dt(Year1900)
  /\ pc = "idle"
  /\ today_ok = FALSE
  /\ day_i = 0
  /\ cache = NoCache
  /\ obs = Idle

\* The harness calls _set_next_update().
CallSetNextUpdate ==
  /\ pc = "idle"
  /\ LET r == set_next_update(events, updated, next_update, now) IN
       /\ next_update' = r.next_update
       /\ obs' = [op |-> "set_next_update", ret |-> r.ret]
  /\ pc' = "scheduled"
  /\ UNCHANGED <<mqtt_status, name, cache, events, updated, now, today_ok, day_i>>

NextSched == CallSetNextUpdate

SpecSched == InitSched /\ [][NextSched]_vars

\* The scheduled convenings of the log, and the log of the missed
\* convening of scenario SCHED1: the chamber has adjourned and the one
\* convening it announced lies five minutes before the last refresh.
ScheduledInstants(log) ==
  {log[i].timestamp : i \in {j \in 1..Len(log) :
                               log[j].type = CONVENE_SCHEDULED}}

MissedConvening ==
  /\ convened(events, now) = "False"
  /\ ScheduledInstants(events) = {updated[2] - FIVE_MINUTES}

\* C29: scenario SCHED1 (missed convening): when the chamber is not
\* convened and the convening it scheduled lies five minutes before
\* updated, the scheduler sets next_update to updated plus 60 seconds.
C29_MissedConvening ==
  (pc = "scheduled" /\ MissedConvening) =>
    next_update = Dt(updated[2] + SIXTY_SECONDS)


\* ======================================================================
\* Searches over a log that may hold events without a kind (specification
\* SpecSearch).  A test harness builds a chamber of either class whose log
\* is any list of at most MaxSearchLog events of the shape that class
\* stores, with or without 'type', and calls _search_events.
\* ======================================================================

\* The longest log the search harness stores.
MaxSearchLog == 2

\* The events of a House carry the 'id' House._add_floor_action and
\* House._add_end_day give them; the unknown description of an H20100
\* element leaves one without 'type'.
HouseShaped(p) ==
  DeriveEvents(p) \cup
    {[id |-> <<"uid", p>>, timestamp |-> t] : t \in Times}

\* The events of a Senate carry a 'source' and no 'id'.
SenateShaped ==
  {[timestamp |-> t, type |-> k, source |-> "XML"] :
     t \in Times, k \in DeriveKinds}
    \cup {[timestamp |-> t, source |-> "XML"] : t \in Times}

SearchEvents(chamber, p) ==
  IF chamber = "House" THEN HouseShaped(p) ELSE SenateShaped

SearchLogs(chamber) ==
  UNION {{log \in [1..n -> UNION {SearchEvents(chamber, p) : p \in 1..n}] :
            \A p \in 1..n : log[p] \in SearchEvents(chamber, p)} :
         n \in 0..MaxSearchLog}

InitSearch ==
  /\ mqtt_status = None
  /\ name \in {"House", "Senate"}
  /\ events \in SearchLogs(name)
  /\ updated = Dt(Year1900)
  /\ next_update = Dt(Year1900)
  /\ pc = "idle"
  /\ today_ok = FALSE
  /\ day_i = 0
  /\ cache = NoCache
  /\ now \in Times
  /\ obs = Idle

NextSearch == CallSearch \/ Advance

SpecSearch == InitSearch /\ [][NextSearch]_vars

\* The log without its events that lack a kind.
RECURSIVE WithoutUntyped(_)
WithoutUntyped(log) ==
  IF log = <<>> THEN <<>>
  ELSE IF "type" \in DOMAIN Head(log)
  THEN <<Head(log)>> \o WithoutUntyped(Tail(log))
  ELSE WithoutUntyped(Tail(log))

PriorRefresh == 0 - DAY

\* The log the earlier refresh left: the last session's convening and
\* adjournment and the convening that adjournment announced for instant 1.
PriorLog ==
  <<[timestamp |-> 1, type |-> CONVENE_SCHEDULED, source |-> "XML"],
    [timestamp |-> LastSession + 2, type |-> ADJOURN, source |-> "XML"],
    [timestamp |-> LastSession + 1, type |-> CONVENE, source |-> "XML"]>>

\* The days arguments a caller passes: None or a number of days.
DayLimits == {None} \cup {<<"days", n>> : n \in 0..MaxDays}

InitSenateDays ==
  /\ mqtt_status = None
  /\ name = "Senate"
  /\ pc = "idle"
  /\ today_ok = FALSE
  /\ day_i = 0
  /\ cache = NoCache
  /\ now = 0
  /\ obs = Idle
  /\ \/ /\ events = <<>>
        /\ updated = Dt(Year1900)
        /\ next_update = Dt(Year1900)
     \/ /\ events = PriorLog
        /\ updated = Dt(PriorRefresh)
        /\ next_update = senate_next_update(PriorLog, PriorRefresh, FALSE)

\* The caller's update(force, days).
SenateUpdateDays == \E days \in DayLimits : SenateUpdateLoadDays(days)

\* The caller reads the chamber after update returned.
SenateReturn ==
  /\ name = "Senate"
  /\ Publish

NextSenateDays ==
  \/ SenateUpdateNotDue
  \/ SenateUpdateDays
  \/ SenateLoadJson
  \/ SenateFetchFloor
  \/ SenateReturn
  \/ Tick

SpecSenateDays == InitSenateDays /\ [][NextSenateDays]_vars

\* A past CONVENE and a past ADJOURN are both in the log.
HasConveneAndAdjourn(log, t) ==
  /\ \E i \in 1..Len(log) : log[i].type = CONVENE /\ log[i].timestamp <= t
  /\ \E i \in 1..Len(log) : log[i].type = ADJOURN /\ log[i].timestamp <= t

\* A pass of the walk: a floor document was fetched and the refresh goes
\* on to the next day or ends.
WalkPass ==
  /\ name = "Senate"
  /\ pc = "floor"
  /\ pc' \in {"floor", "publish"}
  /\ now' = now

\* The days loaded once the pass is over: _load keeps the count while the
\* walk goes on; the pass that ends it loads at most one day more.
LoadedAfter ==
  IF pc' = "floor" THEN obs'.days_loaded ELSE obs.days_loaded + 1

\* C31 (as stated): the walk stops exactly when the day limit is reached
\* or the log, after merges, holds a CONVENE and an ADJOURN; no further
\* day is fetched once either holds.
C31_StopsOnEither ==
  [][WalkPass =>
       (pc' = "publish" <=>
          \/ HasConveneAndAdjourn(events', now)
          \/ IF obs.days = None THEN FALSE
             ELSE LoadedAfter >= obs.days[2])]_vars

\* C31 (amended): the walk fetches one day at a time, at least one; called
\* without a day limit it stops exactly after the pass that leaves a
\* CONVENE and an ADJOURN at or before now in the log; called with a day
\* limit n (which only an unforced update with next_update set passes on)
\* it stops exactly after the pass that loads the n-th day (after the first
\* pass when n is 0), whatever the log holds.
C31_StopsOnItsMode ==
  [][WalkPass =>
       /\ day_i' \in {0, day_i + 1}
       /\ IF obs.days = None
          THEN pc' = "publish" <=> HasConveneAndAdjourn(events', now)
          ELSE IF pc' = "floor" THEN obs'.days_loaded < obs.days[2]
          ELSE IF obs.days[2] = 0 THEN day_i = 0
          ELSE obs.days_loaded + 1 = obs.days[2]]_vars

\* The walk goes on under a day limit of two with one day loaded, although
\* the log holds a past CONVENE and a past ADJOURN.
C31_Witness ==
  /\ name = "Senate"
  /\ pc = "floor"
  /\ obs.days = <<"days", 2>>
  /\ obs.days_loaded = 1
  /\ day_i > 0
  /\ HasConveneAndAdjourn(events, now)


\* ----------------------------------------------------------------------
\* Claims about the Senate's floor documents.
\* ----------------------------------------------------------------------

\* The response is a direct success, or its redirect chain started with a
\* 200.
DirectOrFirst200(response) ==
  \/ Len(response.history) = 0 /\ response.ok
  \/ Len(response.history) > 0 /\ response.history[1] = 200

\* C32: a floor-XML day is parsed if and only if the response is a direct
\* 200 or its redirect chain started with a 200; a day answered with a 302
\* to the 404 page or with any other non-success response, with or without
\* a redirect history, contributes no events and the refresh goes on
\* without raising.
C32_LoadableOrSkipped ==
  [][(name = "Senate" /\ pc = "floor") =>
       \A response \in FloorResponses :
         (response.kind = "response" /\ SenateFetchFloorGot(response)) =>
           IF DirectOrFirst200(response)
           THEN LET parsed == senate_load_xml(events, response.content).events
                IN events' \in {parsed, sort_events(parsed)}
           ELSE /\ events' \in {events, sort_events(events)}
                /\ pc' # "crashed"]_vars


\* ======================================================================
\* The House refresh over journals that carry more after their
\* legislative_day_finished element (specification SpecHousePrior): the
\* driver with a House, whose prior-day fetches may also get such a
\* journal.
\* ======================================================================

\* Journals with a legislative_day_finished element that is not the last
\* child: it is followed by a second one, or by the day's convening.
LongJournals ==
  {[well_formed |-> TRUE,
    floor_actions |->
      <<[tag |-> "legislative_day_finished",
         next_legislative_day_convenes |-> c]>> \o tail] :
     c \in {MaxTime},
     tail \in {<<[tag |-> "legislative_day_finished",
                  next_legislative_day_convenes |-> MaxTime + TEN_MINUTES]>>,
               <<FloorAction(1, 0)>>}}

PriorResponses(t) ==
  Responses(t) \cup
    {[kind |-> "response", ok |-> TRUE, content |-> j] : j \in LongJournals}

HouseFetchPriorLong ==
  \E response \in PriorResponses(now) : HouseFetchPriorGot(response)

NextHousePrior ==
  \/ HouseUpdateNotDue
  \/ HouseUpdateLoad
  \/ HouseFetchToday
  \/ HouseFetchPriorLong
  \/ Publish
  \/ Tick

InitHousePrior ==
  /\ mqtt_status = "connected"
  /\ name = "House"
  /\ Constructed
  /\ now = 0
  /\ obs = Idle

SpecHousePrior == InitHousePrior /\ [][NextHousePrior]_vars

\* The log with the CONVENE_SCHEDULED of the first
\* legislative_day_finished child from position k on, if there is one.
RECURSIVE WithFirstEndDay(_, _, _)
WithFirstEndDay(log, children, k) ==
  IF k > Len(children) THEN log
  ELSE IF children[k].tag = "legislative_day_finished"
  THEN Append(log, [type |-> CONVENE_SCHEDULED,
                    timestamp |-> children[k].next_legislative_day_convenes,
                    id |-> <<"ts", children[k].next_legislative_day_convenes>>])
  ELSE WithFirstEndDay(log, children, k + 1)

\* C33: the walk back from yesterday stops at the first prior day fetched
\* successfully; when today's journal was fetched successfully too, that
\* prior day contributes at most one event, the CONVENE_SCHEDULED of its
\* legislative_day_finished record, none of its floor actions, and nothing
\* that follows that record; when today's was not, it is parsed fully.
C33_PriorDayOnlyEndDay ==
  [][(name = "House" /\ pc = "prior") =>
       \A response \in PriorResponses(now) :
         (/\ response.kind = "response"
          /\ response.ok
          /\ HouseFetchPriorGot(response)) =>
           /\ pc' # "prior"
           /\ pc' = "publish" =>
                IF ~response.content.well_formed THEN events' = sort_events(events)
                ELSE IF today_ok
                THEN events' =
                       sort_events(WithFirstEndDay(
                                     events, response.content.floor_actions, 1))
                ELSE events' =
                       sort_events(load_xml(events, response.content,
                                            FALSE).events)]_vars


\* ----------------------------------------------------------------------
\* Claims about a refresh that a fetch aborts.
\* ----------------------------------------------------------------------

\* A fetch raised and the exception left update: requests.get of a prior
\* House journal or of a Senate floor document, or urlopen of the Senate
\* schedule record.
AbortedAtFetch ==
  /\ pc = "crashed"
  /\ obs.ret \in {"ConnectionError", "ChamberExceptionRecoverable"}

\* C34: a refresh aborted at a fetch leaves the log equal to the
\* pre-refresh log with the events of the documents parsed so far merged
\* in, and that log still satisfies the log invariants: descending order,
\* and unique ids in the House, unique timestamps in the Senate.
C34_AbortKeepsLogInvariants ==
  AbortedAtFetch =>
    /\ Descending(events)
    /\ \A i, j \in 1..Len(events) :
         i # j => IF name = "House" THEN events[i].id # events[j].id
                  ELSE events[i].timestamp # events[j].timestamp


\* ======================================================================
\* The Senate refresh over floor documents with a recess section or with
\* section texts the parsers do not expect (specification SpecSenateText):
\* the loop of the driver run by a harness on a Senate set up with the
\* arguments Chamber.__init__ accepts, whose floor fetches may also get
\* such a document.
\* ======================================================================

\* The current day's document with its convening at instant 1 and a recess
\* at instant 2 until the next convening; and the same day's documents
\* whose recess or adjournment text has no "at" time, no "until", or no
\* time or no date after "until".
TextDocuments ==
  {[well_formed |-> TRUE, has_intro |-> TRUE, convene |-> Dt(1),
    recess |-> <<"recess", Dt(2), Dt(MaxTime + TEN_MINUTES)>>,
    adjournment |-> None]}
  \cup {[well_formed |-> TRUE, has_intro |-> TRUE, convene |-> Dt(1),
         recess |-> <<"recess", None, Dt(MaxTime + TEN_MINUTES)>>,
         adjournment |-> None]}
  \cup {[well_formed |-> TRUE, has_intro |-> TRUE, convene |-> Dt(1),
         recess |-> None, adjournment |-> <<"adjournment", at, until>>] :
          at \in {None, Dt(2)},
          until \in {None, <<"nodate">>, <<"notime">>}}

\* Direct successful responses that carry such a document.
TextResponses ==
  {[kind |-> "response", history |-> <<>>, ok |-> TRUE, content |-> d] :
     d \in TextDocuments}

SenateFetchFloorText ==
  \E response \in FloorResponses \cup TextResponses :
    SenateFetchFloorGot(response)

InitSenateText ==
  /\ mqtt_status = "connected"
  /\ name = "Senate"
  /\ Constructed
  /\ now = 0
  /\ obs = Idle

NextSenateText ==
  \/ SenateUpdateNotDue
  \/ SenateUpdateLoad
  \/ SenateLoadJson
  \/ SenateFetchFloorText
  \/ Publish
  \/ Tick

SpecSenateText == InitSenateText /\ [][NextSenateText]_vars

\* The closed set of event kinds (chambers/const.py).
EventKinds ==
  {OTHER_KIND, CONVENE, CONVENE_SCHEDULED, RECONVENE, ADJOURN, RECESS_TIME,
   RECESS_COC, RECESS_15M, MORNING_DEBATE, DEBATE_BILL, VOTE_VOICE,
   VOTE_RECORDED}

\* C35: after any sequence of refreshes every event of the log has a type
\* that is one member of the closed set of event kinds; the event of the
\* Senate's recess section has the type RECESS_TIME.
C35_ClosedKinds ==
  pc \in {"idle", "publish"} =>
    \A i \in 1..Len(events) :
      /\ "type" \in DOMAIN events[i]
      /\ events[i].type \in EventKinds

\* C36: Senate floor-XML parsing never raises on unexpected text: when the
\* recess or adjournment section has no recognisable time, no "until"
\* clause, or no time or date after it, the events that could be recovered
\* (the CONVENE of intro_text) are merged and the refresh continues.
C36_PartialEventsNoRaise ==
  [][(name = "Senate" /\ pc = "floor" /\ now' = now) =>
       \A response \in TextResponses :
         SenateFetchFloorGot(response) =>
           /\ pc' # "crashed"
           /\ \E i \in 1..Len(events') :
                /\ events'[i].type = CONVENE
                /\ events'[i].timestamp = response.content.convene[2]]_vars


\* ----------------------------------------------------------------------
\* Claims about the signals taken together.
\* ----------------------------------------------------------------------

\* A signal property was read at the current instant.
SignalRead ==
  obs.op \in {"convened", "adjourned_at", "convened_at", "convenes_at"}

\* C37 (as stated): the signals are mutually consistent for any log and
\* now: convened TRUE implies convened_at present and adjourned_at absent;
\* convened FALSE implies adjourned_at present and convened_at absent;
\* convened UNKNOWN implies both absent.
C37_SignalsConsistent ==
  SignalRead =>
    /\ convened(events, now) = "True" =>
         convened_at(events, now) # None /\ adjourned_at(events, now) = None
    /\ convened(events, now) = "False" =>
         adjourned_at(events, now) # None /\ convened_at(events, now) = None
    /\ convened(events, now) = "Unknown" =>
         convened_at(events, now) = None /\ adjourned_at(events, now) = None

\* The latest past CONVENE and the latest past ADJOURN are at one instant.
ConveneAdjournTie ==
  /\ PastConvenes # {}
  /\ PastAdjourns # {}
  /\ LatestTs(events, PastConvenes) = LatestTs(events, PastAdjourns)

\* C37 (amended): for any log and any one instant now, convened TRUE
\* implies convened_at present and adjourned_at absent; convened UNKNOWN
\* implies both absent; convened FALSE implies convened_at absent, and
\* adjourned_at present except when the latest past CONVENE and the
\* latest past ADJOURN carry the same timestamp: then adjourned_at is
\* absent too.
C37_SignalsConsistentButTies ==
  SignalRead =>
    /\ convened(events, now) = "True" =>
         convened_at(events, now) # None /\ adjourned_at(events, now) = None
    /\ convened(events, now) = "False" =>
         /\ convened_at(events, now) = None
         /\ adjourned_at(events, now) = None <=> ConveneAdjournTie
    /\ convened(events, now) = "Unknown" =>
         convened_at(events, now) = None /\ adjourned_at(events, now) = None

\* adjourned_at was read from a log whose latest past CONVENE and ADJOURN
\* are at one instant: it is absent, while the chamber is not convened
\* and convened_at is absent as well.
C37_Witness ==
  /\ obs.op = "adjourned_at"
  /\ ConveneAdjournTie
  /\ obs.value = None
  /\ convened(events, now) = "False"
  /\ convened_at(events, now) = None


\* ----------------------------------------------------------------------
\* Claims about the pacing of the refreshes and their termination.
\* ----------------------------------------------------------------------

\* update(force=False) called on the chamber in the state after this step
\* would take a branch that loads.
DueAgain ==
  IF name = "House" THEN house_due(FALSE, events', next_update', now')
  ELSE senate_due(FALSE, next_update', now')

\* The step in which update ends a refresh and returns True.
RefreshReturns == pc \in {"today", "prior", "floor"} /\ pc' = "publish"

\* C38: immediately after a refresh of either chamber completes, a
\* non-forced update at the same instant performs no fetch: the driver
\* never refreshes a chamber on two consecutive iterations without time
\* passing.
C38_SelfPacing == [][RefreshReturns => ~DueAgain]_vars

\* The driver is between two calls of update, or publishing.
BetweenCalls == pc \in {"idle"} \cup PublishStages

\* The steps the main thread takes by itself: those of the constructor
\* and of the run loop, a call of update with force set left out.  run is
\* `while True` without a sleep: a pass follows a pass, every fetch
\* returns or raises.  With the status 'connecting' or
\* 'disconnected-planned' a pass is no step.
DriverUnforced ==
  \/ ConstructLoadCache
  \/ ConstructReturn
  \/ RunConnect
  \/ /\ CallsUpdate
     /\ \/ HouseUpdateNotDue
        \/ HouseUpdateLoad
        \/ SenateUpdateNotDue
        \/ SenateUpdateLoad
     /\ obs'.force = FALSE
  \/ HouseFetchToday
  \/ HouseFetchPrior
  \/ SenateLoadJson
  \/ SenateFetchFloor
  \/ Publish

\* The run loop on one chamber while the clock keeps advancing and the
\* main thread keeps running.  Nothing makes the broker acknowledge, keeps
\* the connection up or keeps the loop from being ended: OnConnect,
\* OnDisconnect and RunEnds are under no fairness.
SpecChambersFair ==
  /\ InitChambers
  /\ [][NextChambers]_vars
  /\ WF_vars(Tick)
  /\ WF_vars(DriverUnforced)

\* next_update is unset, which the Senate gate takes as due, or an
\* instant, and update(force=False) is due once the clock is past it.
NextUpdatePassable ==
  IF name = "House"
  THEN house_due(FALSE, events, next_update, next_update[2] + 1)
  ELSE senate_due(FALSE, next_update,
                  IF next_update = None THEN now ELSE next_update[2] + 1)

\* The instant from which update(force=False) is due lies within the
\* instants the clock reaches.
DueWithinHorizon ==
  IF name = "House"
  THEN IF Len(events) = 0 THEN TRUE ELSE next_update[2] < MaxTime
  ELSE IF next_update = None THEN TRUE ELSE next_update[2] < MaxTime

\* update has taken a branch that loads: a refresh is under way.
Refreshing == pc \in {"today", "schedule"}

HouseWalkEndsUnavailable ==
  \E response \in Responses(now) :
    /\ response.kind = "response"
    /\ ~response.ok
    /\ HouseFetchPriorGot(response)
    /\ pc' # "prior"

\* A pass of the Senate walk that finds the day not loadable and ends the
\* walk.
SenateWalkEndsUnloadable ==
  \E response \in FloorResponses :
    /\ response.kind = "response"
    /\ loadable(response) = "False"
    /\ SenateFetchFloorGot(response)
    /\ pc' # "floor"

\* C40: every refresh terminates provided each fetch returns: the House
\* walk and the Senate walk end after finitely many fetches also when no
\* prior day is available, no day is loadable, or the Senate has yet to
\* yield both a CONVENE and an ADJOURN: a walk that has gone back MaxDays
\* days can end on a day that is not available.
C40_WalksEnd ==
  /\ (name = "House" /\ pc = "prior" /\ day_i = MaxDays)
       => ENABLED HouseWalkEndsUnavailable
  /\ (name = "Senate" /\ pc = "floor" /\ day_i = MaxDays)
       => ENABLED SenateWalkEndsUnloadable

====
